---- MODULE Spec2Model ----
(***************************************************************************)
(* A model of the execution core of k6:                                    *)
(*   - lib.ExecutionState: the VU buffer and its counters                  *)
(*     (src/lib/execution.go),                                             *)
(*   - lib.ExecutionState: start/end/pause timestamps and the test run     *)
(*     duration (src/lib/execution.go),                                    *)
(*   - js.eventLoop: the per-VU event loop (src/unnamed/part_005).         *)
(*   - lib.ExecutionState: the VU identifiers and the iteration counters   *)
(*     (src/lib/execution.go),                                             *)
(*   - lib.TagMap (src/lib/state.go),                                      *)
(*   - K6.Check of the k6 JS module (src/js/modules/k6/k6.go),             *)
(*   - ExecutionScheduler.Run, as spec.md section 4.9 describes it (the    *)
(*     source has the interface only), on top of the ExecutionState.       *)
(* Each part has its own specification (SpecVU, SpecPause, SpecLoop,       *)
(* SpecIds, SpecIterations, SpecTags, SpecCheck, SpecRun); the variables   *)
(* of the other parts stay at their initial values.                        *)
(***************************************************************************)
EXTENDS Integers, Sequences, FiniteSets, TLC

(***************************************************************************)
(* Bounds of the model and program constants.                              *)
(***************************************************************************)
\* capacity of the vus channel: NewExecutionState's maxPossibleVUs argument
MaxPossibleVUs == 2

\* const MaxRetriesGetPlannedVU = 5
MaxRetriesGetPlannedVU == 5


\* the clock runs from 1 to MaxTime
MaxTime == 3

\* at most MaxCalls calls of Pause and Resume are made
MaxCalls == 4

\* at most MaxTasks tasks are created on the loop
MaxTasks == 4

\* at most MaxStarts calls of Start are made
MaxStarts == 2

\* ExecutionStatus values (iota)
ExecutionStatusCreated == 0
ExecutionStatusInitVUs == 1
ExecutionStatusInitExecutors == 2
ExecutionStatusInitDone == 3
ExecutionStatusPausedBeforeRun == 4
ExecutionStatusStarted == 5
ExecutionStatusSetup == 6
ExecutionStatusRunning == 7
ExecutionStatusTeardown == 8
ExecutionStatusEnded == 9
ExecutionStatusInterrupted == 10

\* at most MaxIds calls of GetUniqueVUIdentifiers are made
MaxIds == 4

\* the unscaled index advances by 1..MaxStride at a time
MaxStride == 2

\* the two iteration counters together count at most MaxIterations iterations
MaxIterations == 3

\* an Add call adds at most MaxCount iterations
MaxCount == 2

\* at most MaxAdds Add calls are made
MaxAdds == 4

\* at most MaxReads reads of the sum of the iteration counters are made
MaxReads == 3

\* at most MaxMaps maps are allocated: the TagMap's own and its clones
MaxMaps == 3

\* a call of check() is given at most MaxChecks checks
MaxChecks == 2
MaxObserved == 2
MaxSwaps == 3
MaxGroupCalls == 3

\* the executors (goroutines) that borrow VUs from the ExecutionState
Executors == {"e1", "e2"}

NoVU == 0

(***************************************************************************)
(* State of the VU pool.                                                   *)
(***************************************************************************)
VARIABLES
    maxPlannedVUs,              \* NewExecutionState's maxPlannedVUs argument
    vus,                        \* es.vus: buffered channel of InitializedVU
    initializedVUs,             \* *es.initializedVUs
    activeVUs,                  \* *es.activeVUs
    uninitializedUnplannedVUs,  \* *es.uninitializedUnplannedVUs
    vuCreated,                  \* number of VUs constructed so far (ids 1..vuCreated)
    unplannedInits,             \* initVUFunc invocations made through GetUnplannedVU
    initPc,                     \* position of the scheduler's Init loop
    initVU,                     \* the VU the Init loop is about to add
    pc,                         \* executor -> position inside the current call
    loc,                        \* executor -> locals of the current call
    held,                       \* executor -> VUs it has borrowed
    heldActive                  \* executor -> borrowed VUs it counts in activeVUs

vuVars == <<maxPlannedVUs, vus, initializedVUs, activeVUs, uninitializedUnplannedVUs,
            vuCreated, unplannedInits, initPc, initVU, pc, loc, held, heldActive>>


(***************************************************************************)
(* State of the start/end/pause bookkeeping of the ExecutionState.         *)
(***************************************************************************)
VARIABLES
    now,                  \* time.Now().UnixNano()
    executionStatus,      \* *es.executionStatus
    startTime,            \* *es.startTime
    endTime,              \* *es.endTime
    currentPauseTime,     \* *es.currentPauseTime
    totalPausedDuration,  \* es.totalPausedDuration
    resumeNotify,         \* es.resumeNotify: the channel it refers to
    chanClosed,           \* the resumeNotify channels that are closed
    chanMade,             \* number of channels made by Pause
    calls,                \* number of Pause and Resume calls made
    pausesOk,             \* number of Pause calls that returned nil
    resumesOk,            \* number of Resume calls that returned nil
    lastCall,             \* the last call made and whether it failed
    pausedTicks,          \* clock ticks that passed while started and paused
    pausedAtStart         \* MarkStarted stored startTime while the state was paused

timeVars == <<now, executionStatus, startTime, endTime, currentPauseTime,
              totalPausedDuration, resumeNotify, chanClosed, chanMade,
              calls, pausesOk, resumesOk, lastCall, pausedTicks, pausedAtStart>>


(***************************************************************************)
(* State of one eventLoop, of the goroutine that calls RunOnLoop and Start *)
(* on it, and of the goroutines that complete its reservations.            *)
(***************************************************************************)
VARIABLES
    queue,          \* e.queue
    reservedCount,  \* e.reservedCount
    wakeupCh,       \* e.wakeupCh: number of signals buffered (capacity 1)
    ctxDone,        \* the context given to Start is done
    spc,            \* position inside Start ("idle": not inside Start)
    lqueue,         \* Start's local queue: the tasks of the batch not yet run
    cur,            \* the task Start is running
    tasks,          \* task id -> [kind, epoch, parent]
    completers,     \* goroutines holding a function returned by Reserve
    ran,            \* the tasks run so far, in order
    starts,         \* number of Start calls made
    everCancelled,  \* some context given to Start was cancelled
    leftoverWake    \* the current Start was woken up and found nothing to run

loopVars == <<queue, reservedCount, wakeupCh, ctxDone, spc, lqueue, cur, tasks,
              completers, ran, starts, everCancelled, leftoverWake>>

(***************************************************************************)
(* State of the VU identifier allocator of the ExecutionState and of the   *)
(* goroutines that call GetUniqueVUIdentifiers.                            *)
(***************************************************************************)
VARIABLES
    vuIDSegIndexMx,  \* es.vuIDSegIndexMx: the goroutine holding the mutex
    vuIDSegIndex,    \* es.vuIDSegIndex: [scaled, unscaled] of the SegmentedIndex
    idPc,            \* goroutine -> position inside GetUniqueVUIdentifiers
    idLoc,           \* goroutine -> the [scaled, unscaled] it works on
    idsReturned      \* the pairs returned so far, in the order of the returns

idVars == <<vuIDSegIndexMx, vuIDSegIndex, idPc, idLoc, idsReturned>>

(***************************************************************************)
(* State of the iteration counters of the ExecutionState and of a          *)
(* goroutine that reads both and adds them up.                             *)
(***************************************************************************)
VARIABLES
    fullIterationsCount,         \* *es.fullIterationsCount
    interruptedIterationsCount,  \* *es.interruptedIterationsCount
    addCalls,                    \* number of Add calls made
    lastAdd,                     \* the last Add call: counter, count, value returned
    readPc,                      \* position of the reading goroutine
    readFull,                    \* what its GetFullIterationCount() returned
    sums                         \* the sums it has observed, in order

iterVars == <<fullIterationsCount, interruptedIterationsCount, addCalls, lastAdd,
              readPc, readFull, sums>>

(***************************************************************************)
(* State of one TagMap, of the Go maps allocated for it and for its        *)
(* clones, and of the goroutine that holds the last clone.                 *)
(***************************************************************************)
VARIABLES
    maps,       \* the heap: map reference -> contents of that Go map
    allocated,  \* number of maps made so far (references 1..allocated)
    cloneRef,   \* the map returned by the last Clone() (0: no Clone yet)
    lastTagOp   \* the last operation made on the TagMap or on the clone

tagVars == <<maps, allocated, cloneRef, lastTagOp>>

(***************************************************************************)
(* State of one call of K6.Check and of the context of its VU.             *)
(***************************************************************************)
VARIABLES
    ckPc,         \* position inside Check ("idle": no call made yet)
    ckChecks,     \* the values of the checks object, in key order
    ckIdx,        \* index of the check the loop is at
    ckVal,        \* val.ToBoolean() of the check the loop is at
    ckSucc,       \* succ
    ckExc,        \* exc != nil
    ckCtxDone,    \* the context of the VU is done
    ckPasses,     \* sum of check.Passes over the checks
    ckFails,      \* sum of check.Fails over the checks
    ckRet,        \* what Check returned: [ok, err]
    ckEvaluated   \* the check values evaluated by the call, as booleans

checkVars == <<ckPc, ckChecks, ckIdx, ckVal, ckSucc, ckExc, ckCtxDone,
               ckPasses, ckFails, ckRet, ckEvaluated>>

(***************************************************************************)
(* State of one call of ExecutionScheduler.Run and of its executors.       *)
(***************************************************************************)
VARIABLES
    runPc,                  \* position inside Run
    runCtxDone,             \* runCtx is cancelled
    cancelledWhileRunning,  \* runCtx was cancelled while an executor was running
    execPc,                 \* executor -> "notStarted", "running" or "done"
    teardown,               \* the Teardown call: made or not, its context, the status then
    runRet                  \* what Run returned

runVars == <<runPc, runCtxDone, cancelledWhileRunning, execPc, teardown, runRet>>

(***************************************************************************)
(* An observer calling GetCurrentTestRunDuration, read by read.            *)
(***************************************************************************)
VARIABLES
    obsPc,     \* position inside GetCurrentTestRunDuration
    obsLoc,    \* its locals: startTime, pausedDuration
    obsRet,    \* the value the last call returned
    obsCalls   \* number of calls that returned

obsVars == <<obsPc, obsLoc, obsRet, obsCalls>>

(***************************************************************************)
(* Goroutines calling SetExecutionStatus.                                  *)
(***************************************************************************)
VARIABLES
    swapPc,   \* goroutine -> position inside SetExecutionStatus
    swapArg,  \* goroutine -> newStatus
    swapRet,  \* goroutine -> oldStatus, the value returned
    swapLog   \* the swaps in the order they took effect

swapVars == <<swapPc, swapArg, swapRet, swapLog>>

(***************************************************************************)
(* A VU's state as K6.Group uses it.                                       *)
(***************************************************************************)
VARIABLES
    grpGroup,    \* state.Group, as the path of the group
    grpTag,      \* state.Tags["group"]
    grpTagOn,    \* state.Options.SystemTags.Has(stats.TagGroup)
    grpStack,    \* the Group calls whose fn is running, outermost first
    grpLast,     \* how the last Group call that returned ended
    grpCalls,    \* number of Group calls made
    grpFnCalls,  \* number of times a Group call called its fn
    grpSamples   \* number of group_duration samples pushed

groupVars == <<grpGroup, grpTag, grpTagOn, grpStack, grpLast, grpCalls, grpFnCalls,
               grpSamples>>

NoLocals == [modify |-> FALSE, i |-> 0, remVUs |-> 0, vu |-> NoVU, unplanned |-> FALSE]

\* the variables of the other parts
otherThanVU == <<timeVars, loopVars, idVars, iterVars,
      tagVars, checkVars, runVars, obsVars, swapVars, groupVars>>
otherThanTime == <<vuVars, loopVars, idVars, iterVars,
      tagVars, checkVars, runVars, obsVars, swapVars, groupVars>>
otherThanLoop == <<vuVars, timeVars, idVars, iterVars,
      tagVars, checkVars, runVars, obsVars, swapVars, groupVars>>
otherThanIds == <<vuVars, timeVars, loopVars, iterVars,
      tagVars, checkVars, runVars, obsVars, swapVars, groupVars>>
otherThanIterations == <<vuVars, timeVars, loopVars, idVars,
      tagVars, checkVars, runVars, obsVars, swapVars, groupVars>>
otherThanTags == <<vuVars, timeVars, loopVars, idVars,
      iterVars, checkVars, runVars, obsVars, swapVars, groupVars>>
otherThanCheck == <<vuVars, timeVars, loopVars, idVars,
      iterVars, tagVars, runVars, obsVars, swapVars, groupVars>>
\* what Run and its executors do not touch
otherThanRun == <<loopVars, idVars, iterVars, tagVars, checkVars, obsVars, swapVars, groupVars>>
otherThanGroup == <<vuVars, timeVars, loopVars, idVars, iterVars,
      tagVars, checkVars, runVars, obsVars, swapVars>>
\* what an observer of the duration does not write
otherThanObserver == <<vuVars, timeVars, loopVars, idVars, iterVars,
      tagVars, checkVars, runVars, swapVars, groupVars>>
\* what callers of SetExecutionStatus do not touch
otherThanSwap == <<vuVars, loopVars, idVars, iterVars,
      tagVars, checkVars, runVars, obsVars, groupVars>>

vars == <<vuVars, timeVars, loopVars, idVars, iterVars, tagVars, checkVars, runVars,
          obsVars, swapVars, groupVars>>

\* NewExecutionState: vus is an empty channel of capacity maxPossibleVUs, the
\* counters are zero, uninitializedUnplannedVUs = maxPossibleVUs - maxPlannedVUs.
NewExecutionState ==
    /\ maxPlannedVUs \in 0..MaxPossibleVUs
    /\ vus = <<>>
    /\ initializedVUs = 0
    /\ activeVUs = 0
    /\ uninitializedUnplannedVUs = MaxPossibleVUs - maxPlannedVUs
    /\ vuCreated = 0
    /\ unplannedInits = 0
    /\ initPc = IF maxPlannedVUs = 0 THEN "done" ELSE "new"
    /\ initVU = NoVU
    /\ pc = [e \in Executors |-> "idle"]
    /\ loc = [e \in Executors |-> NoLocals]
    /\ held = [e \in Executors |-> {}]
    /\ heldActive = [e \in Executors |-> {}]

(***************************************************************************)
(* Channel and atomic primitives.                                          *)
(***************************************************************************)
\* es.vus <- vu
ChanSend(ch, v) == Append(ch, v)

\* what stays in the channel after vu := <-es.vus (the mutant leaves the VU in)
ChanAfterRecvKeep(ch) == ch
ChanAfterRecv(ch) == Tail(ch)

\* len(es.vus) < cap(es.vus): a send does not block
ChanCanSend(ch) == Len(ch) < MaxPossibleVUs

\* atomic.AddInt64(es.activeVUs, mod)
ModCurrentlyActiveVUsCount(mod) == activeVUs' = activeVUs + mod

\* atomic.AddInt64(es.initializedVUs, mod)
ModInitializedVUsCount(mod) == initializedVUs' = initializedVUs + mod

\* if remVUs < 0: no unplanned VU is left to initialize (the mutant is off by one)
NoUnplannedLeftOffByOne(remVUs) == remVUs < -1
NoUnplannedLeft(remVUs) == remVUs < 0

(***************************************************************************)
(* The scheduler's Init: pre-allocate maxPlannedVUs VUs. Executors run     *)
(* only after Init is over.                                                *)
(***************************************************************************)
InitNewVU ==
    /\ initPc = "new"
    /\ vuCreated' = vuCreated + 1
    /\ initVU' = vuCreated + 1
    /\ initPc' = "send"
    /\ UNCHANGED <<maxPlannedVUs, vus, initializedVUs, activeVUs, uninitializedUnplannedVUs,
                   unplannedInits, pc, loc, held, heldActive>>
    /\ UNCHANGED otherThanVU

\* AddInitializedVU, first statement: es.vus <- vu
AddInitializedVU_Send ==
    /\ initPc = "send"
    /\ ChanCanSend(vus)
    /\ vus' = ChanSend(vus, initVU)
    /\ initVU' = NoVU
    /\ initPc' = "count"
    /\ UNCHANGED <<maxPlannedVUs, initializedVUs, activeVUs, uninitializedUnplannedVUs,
                   vuCreated, unplannedInits, pc, loc, held, heldActive>>
    /\ UNCHANGED otherThanVU

\* AddInitializedVU, second statement: es.ModInitializedVUsCount(+1)
AddInitializedVU_Count ==
    /\ initPc = "count"
    /\ ModInitializedVUsCount(1)
    /\ initPc' = IF initializedVUs + 1 >= maxPlannedVUs THEN "done" ELSE "new"
    /\ UNCHANGED <<maxPlannedVUs, vus, activeVUs, uninitializedUnplannedVUs,
                   vuCreated, unplannedInits, initVU, pc, loc, held, heldActive>>
    /\ UNCHANGED otherThanVU

(***************************************************************************)
(* GetPlannedVU                                                            *)
(***************************************************************************)
GetPlannedVU_Call(e, modifyActiveVUCount) ==
    /\ initPc = "done"
    /\ pc[e] = "idle"
    /\ pc' = [pc EXCEPT ![e] = "gp_select"]
    /\ loc' = [loc EXCEPT ![e] = [NoLocals EXCEPT !.modify = modifyActiveVUCount, !.i = 1]]
    /\ UNCHANGED <<maxPlannedVUs, vus, initializedVUs, activeVUs, uninitializedUnplannedVUs,
                   vuCreated, unplannedInits, initPc, initVU, held, heldActive>>
    /\ UNCHANGED otherThanVU

\* case vu := <-es.vus
GetPlannedVU_Recv(e) ==
    /\ pc[e] = "gp_select"
    /\ vus # <<>>
    /\ vus' = ChanAfterRecv(vus)
    /\ held' = [held EXCEPT ![e] = @ \cup {Head(vus)}]
    /\ IF loc[e].modify
         THEN /\ pc' = [pc EXCEPT ![e] = "gp_inc"]
              /\ loc' = [loc EXCEPT ![e].vu = Head(vus)]
         ELSE /\ pc' = [pc EXCEPT ![e] = "idle"]
              /\ loc' = [loc EXCEPT ![e] = NoLocals]
    /\ UNCHANGED <<maxPlannedVUs, initializedVUs, activeVUs, uninitializedUnplannedVUs,
                   vuCreated, unplannedInits, initPc, initVU, heldActive>>
    /\ UNCHANGED otherThanVU

\* if modifyActiveVUCount { es.ModCurrentlyActiveVUsCount(+1) }; return vu, nil
GetPlannedVU_Inc(e) ==
    /\ pc[e] = "gp_inc"
    /\ ModCurrentlyActiveVUsCount(1)
    /\ heldActive' = [heldActive EXCEPT ![e] = @ \cup {loc[e].vu}]
    /\ pc' = [pc EXCEPT ![e] = "idle"]
    /\ loc' = [loc EXCEPT ![e] = NoLocals]
    /\ UNCHANGED <<maxPlannedVUs, vus, initializedVUs, uninitializedUnplannedVUs,
                   vuCreated, unplannedInits, initPc, initVU, held>>
    /\ UNCHANGED otherThanVU

\* for i := 1; i <= MaxRetriesGetPlannedVU; i++: the loop goes on (the mutant
\* stops one attempt early)
RetriesLeftButOne(i) == i < MaxRetriesGetPlannedVU
RetriesLeft(i) == i <= MaxRetriesGetPlannedVU

\* case <-time.After(MaxTimeToWaitForPlannedVU): the buffer stayed empty for the
\* whole wait; a warning is logged and i++; the loop is left when no retry remains
GetPlannedVU_Timeout(e) ==
    /\ pc[e] = "gp_select"
    /\ vus = <<>>
    /\ loc' = [loc EXCEPT ![e].i = @ + 1]
    /\ pc' = [pc EXCEPT ![e] = IF RetriesLeft(loc[e].i + 1) THEN "gp_select" ELSE "gp_fail"]
    /\ UNCHANGED <<maxPlannedVUs, vus, initializedVUs, activeVUs, uninitializedUnplannedVUs,
                   vuCreated, unplannedInits, initPc, initVU, held, heldActive>>
    /\ UNCHANGED otherThanVU

\* return nil, fmt.Errorf("could not get a VU from the buffer in %s", ...)
GetPlannedVU_Fail(e) ==
    /\ pc[e] = "gp_fail"
    /\ pc' = [pc EXCEPT ![e] = "idle"]
    /\ loc' = [loc EXCEPT ![e] = NoLocals]
    /\ UNCHANGED <<maxPlannedVUs, vus, initializedVUs, activeVUs, uninitializedUnplannedVUs,
                   vuCreated, unplannedInits, initPc, initVU, held, heldActive>>
    /\ UNCHANGED otherThanVU

(***************************************************************************)
(* GetUnplannedVU and InitializeNewVU                                      *)
(***************************************************************************)
\* remVUs := atomic.AddInt64(es.uninitializedUnplannedVUs, -1)
GetUnplannedVU_Dec(e) ==
    /\ initPc = "done"
    /\ pc[e] = "idle"
    /\ uninitializedUnplannedVUs' = uninitializedUnplannedVUs - 1
    /\ pc' = [pc EXCEPT ![e] = "gu_checked"]
    /\ loc' = [loc EXCEPT ![e] = [NoLocals EXCEPT !.remVUs = uninitializedUnplannedVUs - 1]]
    /\ UNCHANGED <<maxPlannedVUs, vus, initializedVUs, activeVUs,
                   vuCreated, unplannedInits, initPc, initVU, held, heldActive>>
    /\ UNCHANGED otherThanVU

\* if remVUs < 0 { atomic.AddInt64(es.uninitializedUnplannedVUs, 1);
\*                 return es.GetPlannedVU(logger, false) }
GetUnplannedVU_Revert(e) ==
    /\ pc[e] = "gu_checked"
    /\ NoUnplannedLeft(loc[e].remVUs)
    /\ uninitializedUnplannedVUs' = uninitializedUnplannedVUs + 1
    /\ pc' = [pc EXCEPT ![e] = "gp_select"]
    /\ loc' = [loc EXCEPT ![e] = [NoLocals EXCEPT !.modify = FALSE, !.i = 1, !.unplanned = TRUE]]
    /\ UNCHANGED <<maxPlannedVUs, vus, initializedVUs, activeVUs,
                   vuCreated, unplannedInits, initPc, initVU, held, heldActive>>
    /\ UNCHANGED otherThanVU

\* if err != nil { return nil, err }; es.ModInitializedVUsCount(+1): where the
\* call goes on after initVUFunc (the mutant counts a failed construction too)
AfterInitVUFuncCounting(ok) == "gu_count"
AfterInitVUFunc(ok) == IF ok THEN "gu_count" ELSE "idle"

\* InitializeNewVU: newVU, err := es.initVUFunc(ctx, logger); on an error (or
\* with initVUFunc unset) the call returns (nil, err) and the slot taken by the
\* decrement is not given back
InitializeNewVU_Call(e, ok) ==
    /\ pc[e] = "gu_checked"
    /\ ~NoUnplannedLeft(loc[e].remVUs)
    /\ vuCreated <= MaxPossibleVUs + 1
    /\ unplannedInits' = unplannedInits + 1
    /\ pc' = [pc EXCEPT ![e] = AfterInitVUFunc(ok)]
    /\ IF ok
         THEN /\ vuCreated' = vuCreated + 1
              /\ loc' = [loc EXCEPT ![e].vu = vuCreated + 1]
         ELSE /\ vuCreated' = vuCreated
              /\ loc' = [loc EXCEPT ![e] = NoLocals]
    /\ UNCHANGED <<maxPlannedVUs, vus, initializedVUs, activeVUs, uninitializedUnplannedVUs,
                   initPc, initVU, held, heldActive>>
    /\ UNCHANGED otherThanVU

\* es.ModInitializedVUsCount(+1); return newVU, err
InitializeNewVU_Count(e) ==
    /\ pc[e] = "gu_count"
    /\ ModInitializedVUsCount(1)
    /\ held' = [held EXCEPT ![e] = @ \cup {loc[e].vu}]
    /\ pc' = [pc EXCEPT ![e] = "idle"]
    /\ loc' = [loc EXCEPT ![e] = NoLocals]
    /\ UNCHANGED <<maxPlannedVUs, vus, activeVUs, uninitializedUnplannedVUs,
                   vuCreated, unplannedInits, initPc, initVU, heldActive>>
    /\ UNCHANGED otherThanVU

(***************************************************************************)
(* An executor that got a VU without the active count being modified       *)
(* (GetUnplannedVU, GetPlannedVU(false)) activates it itself.              *)
(***************************************************************************)
ActivateVU(e, vu) ==
    /\ pc[e] = "idle"
    /\ vu \in held[e] \ heldActive[e]
    /\ ModCurrentlyActiveVUsCount(1)
    /\ heldActive' = [heldActive EXCEPT ![e] = @ \cup {vu}]
    /\ UNCHANGED <<maxPlannedVUs, vus, initializedVUs, uninitializedUnplannedVUs,
                   vuCreated, unplannedInits, initPc, initVU, pc, loc, held>>
    /\ UNCHANGED otherThanVU

(***************************************************************************)
(* ReturnVU(vu, wasActive): the executor returns a VU it borrowed, with    *)
(* wasActive = whether it counted the VU in activeVUs.                     *)
(***************************************************************************)
\* es.vus <- vu
ReturnVU_Send(e, vu) ==
    /\ pc[e] = "idle"
    /\ vu \in held[e]
    /\ ChanCanSend(vus)
    /\ vus' = ChanSend(vus, vu)
    /\ held' = [held EXCEPT ![e] = @ \ {vu}]
    /\ heldActive' = [heldActive EXCEPT ![e] = @ \ {vu}]
    /\ pc' = [pc EXCEPT ![e] = IF vu \in heldActive[e] THEN "ret_dec" ELSE "idle"]
    /\ UNCHANGED <<maxPlannedVUs, initializedVUs, activeVUs, uninitializedUnplannedVUs,
                   vuCreated, unplannedInits, initPc, initVU, loc>>
    /\ UNCHANGED otherThanVU

\* if wasActive { es.ModCurrentlyActiveVUsCount(-1) }
ReturnVU_Dec(e) ==
    /\ pc[e] = "ret_dec"
    /\ ModCurrentlyActiveVUsCount(-1)
    /\ pc' = [pc EXCEPT ![e] = "idle"]
    /\ UNCHANGED <<maxPlannedVUs, vus, initializedVUs, uninitializedUnplannedVUs,
                   vuCreated, unplannedInits, initPc, initVU, loc, held, heldActive>>
    /\ UNCHANGED otherThanVU


(***************************************************************************)
(* Where a VU is.                                                          *)
(***************************************************************************)
AllVUs == 1..(MaxPossibleVUs + 2)

\* number of times vu is in the vus buffer
InBuffer(vu) == Cardinality({k \in 1..Len(vus) : vus[k] = vu})

\* the executors holding vu
Holders(vu) == {e \in Executors : vu \in held[e]}

\* vu is constructed and not handed over yet (by Init or by InitializeNewVU)
MidInit(vu) ==
    Cardinality({e \in Executors : pc[e] = "gu_count" /\ loc[e].vu = vu})
        + (IF initVU = vu THEN 1 ELSE 0)

Places(vu) == InBuffer(vu) + Cardinality(Holders(vu)) + MidInit(vu)

\* no call is between its channel operation and its counter update
Quiescent ==
    /\ initPc \in {"new", "done"}
    /\ \A e \in Executors : pc[e] \in {"idle", "gp_select"}

(***************************************************************************)
(* C1: in every reachable state, the states between a channel operation    *)
(* and its counter update included, 0 <= activeVUs <= initializedVUs <=    *)
(* maxPossibleVUs.                                                         *)
(***************************************************************************)
C1_CountersOrdered ==
    /\ 0 <= activeVUs
    /\ activeVUs <= initializedVUs
    /\ initializedVUs <= MaxPossibleVUs

\* the counters are ordered whenever no call is in the middle of its update
C1_OrderedWhenQuiescent == Quiescent => C1_CountersOrdered

(***************************************************************************)
(* C2: the number of GetUnplannedVU calls that invoke initVUFunc is at     *)
(* most maxPossibleVUs - maxPlannedVUs.                                    *)
(***************************************************************************)
C2_LazyConstructionsBounded == unplannedInits <= MaxPossibleVUs - maxPlannedVUs

\* every unplanned slot was used and a further GetUnplannedVU call fell through
C2_Witness ==
    /\ unplannedInits > 0
    /\ unplannedInits = MaxPossibleVUs - maxPlannedVUs
    /\ \E e \in Executors : pc[e] = "gp_select" /\ loc[e].unplanned

(***************************************************************************)
(* C3: a VU is never in two places at once: not in the buffer and held,    *)
(* not held by two executors, not in the buffer twice, not mid-            *)
(* initialization and anywhere else.                                       *)
(***************************************************************************)
C3_OnePlacePerVU == \A vu \in AllVUs : Places(vu) <= 1

\* an executor holds an unplanned VU while the buffer is not empty and another
\* executor is in the middle of ReturnVU
C3_Witness ==
    \E vu \in AllVUs, e \in Executors :
        /\ vu \in held[e]
        /\ vu > maxPlannedVUs
        /\ vus # <<>>
        /\ pc[e] = "idle"
        /\ \E f \in Executors \ {e} : pc[f] = "ret_dec"

(***************************************************************************)
(* C20: GetPlannedVU on a buffer that stays empty returns an error and no  *)
(* VU after exactly MaxRetriesGetPlannedVU timeouts, one warning each,     *)
(* leaving activeVUs unchanged; a call that has had fewer timeouts does    *)
(* not fail, and a VU that is in the buffer during any of the waits is     *)
(* returned without an error.                                              *)
(***************************************************************************)
\* the timeouts (and warnings) the call of e has had so far
Timeouts(e) == loc[e].i - 1

\* this step ends the select of e's GetPlannedVU call
SelectEnds(e) == pc[e] = "gp_select" /\ (pc'[e] # "gp_select" \/ loc'[e].i # loc[e].i)

\* this step is the failing return of e's GetPlannedVU call
FailReturns(e) == pc[e] = "gp_fail" /\ pc'[e] = "idle"

UnplannedCall(e) ==
    \/ pc[e] \in {"gu_checked", "gu_count"}
    \/ pc[e] \in {"gp_select", "gp_fail"} /\ loc[e].unplanned

\* this step belongs to a GetUnplannedVU call of e
UnplannedCallSteps(e) ==
    \/ pc[e] = "idle" /\ pc'[e] = "gu_checked"
    \/ UnplannedCall(e) /\ <<pc[e], loc[e]>>' # <<pc[e], loc[e]>>

\* the slots taken so far: constructions made, and those a caller is about to make
SlotsConsumed ==
    unplannedInits
        + Cardinality({e \in Executors : pc[e] = "gu_checked" /\ loc[e].remVUs >= 0})

AllSlotsConsumed == SlotsConsumed = MaxPossibleVUs - maxPlannedVUs

C21_FallThroughWhenSlotsConsumed ==
    [][\A e \in Executors :
          /\ UnplannedCallSteps(e) => activeVUs' = activeVUs
          /\ (AllSlotsConsumed /\ pc[e] = "idle" /\ pc'[e] = "gu_checked")
                => loc'[e].remVUs < 0
          /\ (pc[e] = "gu_checked" /\ loc[e].remVUs < 0 /\ pc'[e] # pc[e])
                => /\ pc'[e] = "gp_select"
                   /\ loc'[e].unplanned
                   /\ ~loc'[e].modify
                   /\ vuCreated' = vuCreated
                   /\ unplannedInits' = unplannedInits
          /\ (pc[e] = "gp_select" /\ loc[e].unplanned)
                => pc'[e] \in {"gp_select", "gp_fail", "idle"}
          /\ (pc[e] = "gp_select" /\ loc[e].unplanned /\ pc'[e] = "idle")
                => /\ vus # <<>>
                   /\ held'[e] = held[e] \cup {Head(vus)}
          /\ (pc[e] = "gp_fail" /\ loc[e].unplanned /\ pc'[e] = "idle")
                => /\ Timeouts(e) = MaxRetriesGetPlannedVU
                   /\ held'[e] = held[e]]_vars

\* every slot was used, a VU is active, and a further GetUnplannedVU call is
\* about to fail after its retries
C21_Witness ==
    \E e \in Executors :
        /\ pc[e] = "gp_fail"
        /\ loc[e].unplanned
        /\ AllSlotsConsumed
        /\ unplannedInits >= 1
        /\ activeVUs >= 1

(***************************************************************************)
(* C22: uninitializedUnplannedVUs is >= 0 in every reachable state, the    *)
(* states between a caller's decrement and its revert included.            *)
(***************************************************************************)
C22_NeverNegative == uninitializedUnplannedVUs >= 0

\* e has decremented the counter below zero and has not reverted yet
InRevertWindow(e) == pc[e] = "gu_checked" /\ loc[e].remVUs < 0

RevertWindows == Cardinality({e \in Executors : InRevertWindow(e)})

\* The counter is the number of free slots minus the decrements not reverted
\* yet, so it is not negative once every speculative decrement is reverted; and
\* a caller's decrement yields a negative result exactly when every slot is
\* consumed, whatever the other callers have decremented and not yet reverted.
C22_TransientChangesNoOutcome ==
    /\ [](/\ uninitializedUnplannedVUs
                = (MaxPossibleVUs - maxPlannedVUs - SlotsConsumed) - RevertWindows
          /\ RevertWindows = 0 => uninitializedUnplannedVUs >= 0)
    /\ [][\A e \in Executors :
             (pc[e] = "idle" /\ pc'[e] = "gu_checked")
                => (loc'[e].remVUs < 0 <=> AllSlotsConsumed)]_vars

\* two callers have decremented and neither has reverted: the counter is -2
C22_Witness ==
    /\ uninitializedUnplannedVUs = -2
    /\ \A e \in Executors : InRevertWindow(e)

(***************************************************************************)
(* C23: the vus buffer never holds more than maxPossibleVUs VUs, and       *)
(* whenever a VU is outside the buffer (held by an executor, or built by   *)
(* Init and not added yet) the buffer has room for it: the send of         *)
(* ReturnVU and of AddInitializedVU does not block.                        *)
(***************************************************************************)
\* a send to es.vus can be the next statement of Init or of an executor
SendPossible == initPc = "send" \/ \E e \in Executors : held[e] # {}

C23_ReturnVUNeverBlocks ==
    /\ Len(vus) <= MaxPossibleVUs
    /\ SendPossible => ChanCanSend(vus)

\* the buffer is full and holds a VU that was built lazily and then returned
C23_Witness ==
    /\ Len(vus) = MaxPossibleVUs
    /\ \E k \in 1..Len(vus) : vus[k] > maxPlannedVUs
    /\ \A e \in Executors : pc[e] = "idle"

(***************************************************************************)
(* C34: when the construction of a VU fails inside GetUnplannedVU /        *)
(* InitializeNewVU, the call returns the error and no VU, and              *)
(* initializedVUs, activeVUs and the contents of the vus buffer are as     *)
(* they were.                                                              *)
(***************************************************************************)
\* this step is e's call of initVUFunc, and it fails
ConstructionFails(e) ==
    /\ pc[e] = "gu_checked"
    /\ pc'[e] # pc[e]
    /\ unplannedInits' = unplannedInits + 1
    /\ vuCreated' = vuCreated

C34_FailedConstructionLeavesPool ==
    /\ [][\A e \in Executors :
             ConstructionFails(e)
                => /\ pc'[e] = "idle"
                   /\ held' = held
                   /\ heldActive' = heldActive
                   /\ initializedVUs' = initializedVUs
                   /\ activeVUs' = activeVUs
                   /\ vus' = vus]_vars
    /\ [](NoVU \notin UNION {held[e] : e \in Executors})

\* the constructions that failed so far
FailedInits == unplannedInits - (vuCreated - (IF initPc = "done" THEN maxPlannedVUs ELSE 0))

\* a construction has failed and the call is over: the planned VU is still in
\* the buffer and it is the only initialized one
C34_Witness ==
    /\ initPc = "done"
    /\ FailedInits >= 1
    /\ maxPlannedVUs = 1
    /\ initializedVUs = 1
    /\ activeVUs = 0
    /\ vus # <<>>
    /\ \A e \in Executors : pc[e] = "idle"

(***************************************************************************)
(* C35: a GetUnplannedVU call whose construction fails does not give its   *)
(* slot back, so there are at most maxPossibleVUs - maxPlannedVUs          *)
(* construction attempts, failed ones included, and at quiescent states    *)
(* initializedVUs + uninitializedUnplannedVUs <= maxPossibleVUs: the sum   *)
(* falls short of maxPossibleVUs by the number of failed constructions.    *)
(***************************************************************************)
\* Init is over and no call is inside GetUnplannedVU or AddInitializedVU
QuiescentPool ==
    /\ initPc = "done"
    /\ \A e \in Executors : pc[e] \notin {"gu_checked", "gu_count"}

C35_FailedConstructionKeepsSlot ==
    /\ [](/\ unplannedInits <= MaxPossibleVUs - maxPlannedVUs
          /\ QuiescentPool
                => /\ initializedVUs + uninitializedUnplannedVUs
                         = MaxPossibleVUs - FailedInits
                   /\ initializedVUs + uninitializedUnplannedVUs <= MaxPossibleVUs)
    /\ [][\A e \in Executors :
             ConstructionFails(e)
                => /\ uninitializedUnplannedVUs' = uninitializedUnplannedVUs
                   /\ loc[e].remVUs >= 0]_vars

\* both unplanned slots are used up by failed constructions: no VU exists
C35_Witness ==
    /\ QuiescentPool
    /\ maxPlannedVUs = 0
    /\ FailedInits = MaxPossibleVUs
    /\ initializedVUs = 0
    /\ uninitializedUnplannedVUs = 0

NextVU ==
    \/ InitNewVU
    \/ AddInitializedVU_Send
    \/ AddInitializedVU_Count
    \/ \E e \in Executors, m \in BOOLEAN : GetPlannedVU_Call(e, m)
    \/ \E e \in Executors : GetPlannedVU_Recv(e)
    \/ \E e \in Executors : GetPlannedVU_Inc(e)
    \/ \E e \in Executors : GetPlannedVU_Timeout(e)
    \/ \E e \in Executors : GetPlannedVU_Fail(e)
    \/ \E e \in Executors : GetUnplannedVU_Dec(e)
    \/ \E e \in Executors : GetUnplannedVU_Revert(e)
    \/ \E e \in Executors, ok \in BOOLEAN : InitializeNewVU_Call(e, ok)
    \/ \E e \in Executors : InitializeNewVU_Count(e)
    \/ \E e \in Executors, vu \in 1..(MaxPossibleVUs + 2) : ActivateVU(e, vu)
    \/ \E e \in Executors, vu \in 1..(MaxPossibleVUs + 2) : ReturnVU_Send(e, vu)
    \/ \E e \in Executors : ReturnVU_Dec(e)


(***************************************************************************)
(* Start, end, pause and resume of the ExecutionState. Pause and Resume    *)
(* hold pauseStateLock for their whole body; MarkStarted and MarkEnded are *)
(* one compare-and-swap followed by a status swap.                         *)
(***************************************************************************)
TimeInit ==
    /\ now = 1
    /\ executionStatus = ExecutionStatusCreated
    /\ startTime = 0
    /\ endTime = 0
    /\ currentPauseTime = 0
    /\ totalPausedDuration = 0
    /\ resumeNotify = 0
    /\ chanClosed = {0}
    /\ chanMade = 0
    /\ calls = 0
    /\ pausesOk = 0
    /\ resumesOk = 0
    /\ lastCall = [op |-> "none", err |-> FALSE]
    /\ pausedTicks = 0
    /\ pausedAtStart = FALSE

\* the clock advances
Tick ==
    /\ now < MaxTime
    /\ now' = now + 1
    /\ pausedTicks' = IF startTime # 0 /\ currentPauseTime # 0
                        THEN pausedTicks + 1 ELSE pausedTicks
    /\ UNCHANGED <<executionStatus, startTime, endTime, currentPauseTime,
                   totalPausedDuration, resumeNotify, chanClosed, chanMade,
                   calls, pausesOk, resumesOk, lastCall, pausedAtStart>>
    /\ UNCHANGED otherThanTime

\* atomic.CompareAndSwapInt64(addr, old, new) succeeds (the mutant always stores)
CompareAndSwapAlways(val, old) == TRUE
CompareAndSwapInt64(val, old) == val = old

\* atomic.SwapUint32(es.executionStatus, uint32(newStatus))
SetExecutionStatus(newStatus) ==
    /\ executionStatus' = newStatus
    /\ lastCall' = [op |-> "SetExecutionStatus", err |-> FALSE]
    /\ UNCHANGED <<now, startTime, endTime, currentPauseTime,
                   totalPausedDuration, resumeNotify, chanClosed, chanMade,
                   calls, pausesOk, resumesOk, pausedTicks, pausedAtStart>>
    /\ UNCHANGED otherThanTime

\* MarkStarted: CAS(startTime, 0, now), a panic when it fails
MarkStarted ==
    /\ IF CompareAndSwapInt64(startTime, 0)
         THEN /\ startTime' = now
              /\ executionStatus' = ExecutionStatusStarted
              /\ lastCall' = [op |-> "MarkStarted", err |-> FALSE]
              /\ pausedAtStart' = (pausedAtStart \/ currentPauseTime # 0)
         ELSE /\ UNCHANGED <<startTime, executionStatus, pausedAtStart>>
              /\ lastCall' = [op |-> "MarkStarted", err |-> TRUE]
    /\ UNCHANGED <<now, endTime, currentPauseTime,
                   totalPausedDuration, resumeNotify, chanClosed, chanMade,
                   calls, pausesOk, resumesOk, pausedTicks>>
    /\ UNCHANGED otherThanTime

\* MarkEnded: CAS(endTime, 0, now), a panic when it fails
MarkEnded ==
    /\ IF CompareAndSwapInt64(endTime, 0)
         THEN /\ endTime' = now
              /\ executionStatus' = ExecutionStatusEnded
              /\ lastCall' = [op |-> "MarkEnded", err |-> FALSE]
         ELSE /\ UNCHANGED <<endTime, executionStatus>>
              /\ lastCall' = [op |-> "MarkEnded", err |-> TRUE]
    /\ UNCHANGED <<now, startTime, currentPauseTime,
                   totalPausedDuration, resumeNotify, chanClosed, chanMade,
                   calls, pausesOk, resumesOk, pausedTicks, pausedAtStart>>
    /\ UNCHANGED otherThanTime

HasStarted == startTime # 0

HasEnded == endTime # 0

IsPaused == currentPauseTime # 0

\* GetCurrentTestRunDuration, read in one piece
GetCurrentTestRunDuration ==
    IF startTime = 0
      THEN 0
      ELSE LET end == IF endTime # 0 THEN endTime
                      ELSE IF currentPauseTime # 0 THEN currentPauseTime
                      ELSE now
           IN  (end - startTime) - totalPausedDuration

\* make(chan struct{}): a channel that did not exist before (the mutant hands
\* out the channel NewExecutionState made)
FirstChannel(made) == 0
NewChannel(made) == made + 1

\* Pause: CAS(currentPauseTime, 0, now); an error when already paused,
\* otherwise resumeNotify = make(chan struct{})
Pause ==
    /\ calls < MaxCalls
    /\ calls' = calls + 1
    /\ IF CompareAndSwapInt64(currentPauseTime, 0)
         THEN /\ currentPauseTime' = now
              /\ chanMade' = chanMade + 1
              /\ resumeNotify' = NewChannel(chanMade)
              /\ pausesOk' = pausesOk + 1
              /\ lastCall' = [op |-> "Pause", err |-> FALSE]
         ELSE /\ UNCHANGED <<currentPauseTime, chanMade, resumeNotify, pausesOk>>
              /\ lastCall' = [op |-> "Pause", err |-> TRUE]
    /\ UNCHANGED <<now, executionStatus, startTime, endTime,
                   totalPausedDuration, chanClosed, resumesOk, pausedTicks, pausedAtStart>>
    /\ UNCHANGED otherThanTime

\* time.Duration(time.Now().UnixNano() - currentPausedTime) (the mutant
\* counts the tick of the Pause too)
PausedSpanInclusive(currentPausedTime) == now - currentPausedTime + 1
PausedSpan(currentPausedTime) == now - currentPausedTime

\* Resume: Swap(currentPauseTime, 0); an error when it was 0, otherwise the
\* pause is added to totalPausedDuration if the test has started, and
\* resumeNotify is closed
Resume ==
    /\ calls < MaxCalls
    /\ calls' = calls + 1
    /\ currentPauseTime' = 0
    /\ IF currentPauseTime = 0
         THEN /\ UNCHANGED <<totalPausedDuration, chanClosed, resumesOk>>
              /\ lastCall' = [op |-> "Resume", err |-> TRUE]
         ELSE /\ totalPausedDuration' =
                    IF startTime # 0
                      THEN totalPausedDuration + PausedSpan(currentPauseTime)
                      ELSE totalPausedDuration
              /\ chanClosed' = chanClosed \cup {resumeNotify}
              /\ resumesOk' = resumesOk + 1
              /\ lastCall' = [op |-> "Resume", err |-> FALSE]
    /\ UNCHANGED <<now, executionStatus, startTime, endTime,
                   resumeNotify, chanMade, pausesOk, pausedTicks, pausedAtStart>>
    /\ UNCHANGED otherThanTime

NextPause ==
    \/ Tick
    \/ \E st \in ExecutionStatusCreated..ExecutionStatusInterrupted : SetExecutionStatus(st)
    \/ MarkStarted
    \/ MarkEnded
    \/ Pause
    \/ Resume

(***************************************************************************)
(* C9: successful Pause and Resume calls alternate, starting with Pause;   *)
(* a Pause while paused and a Resume while not paused fail and leave       *)
(* currentPauseTime, totalPausedDuration and resumeNotify unchanged.       *)
(***************************************************************************)
PauseResumeAlternate ==
    /\ resumesOk <= pausesOk
    /\ pausesOk <= resumesOk + 1
    /\ IsPaused <=> pausesOk = resumesOk + 1

\* a step that is a call of Pause or Resume
PauseOrResumeCalled == calls' = calls + 1

MismatchFailsWithoutEffect ==
    PauseOrResumeCalled =>
        /\ lastCall'.op = "Pause" => (lastCall'.err <=> IsPaused)
        /\ lastCall'.op = "Resume" => (lastCall'.err <=> ~IsPaused)
        /\ lastCall'.err =>
              UNCHANGED <<currentPauseTime, totalPausedDuration, resumeNotify, chanClosed>>

C9_PauseResumeAlternate == []PauseResumeAlternate /\ [][MismatchFailsWithoutEffect]_vars

\* a second Pause failed during the second pause of the run
C9_Witness ==
    /\ lastCall = [op |-> "Pause", err |-> TRUE]
    /\ pausesOk = 2
    /\ resumesOk = 1
    /\ totalPausedDuration > 0

(***************************************************************************)
(* C10: while IsPaused() stays true, GetCurrentTestRunDuration() returns   *)
(* the same value, whatever time passes and whatever MarkStarted or        *)
(* MarkEnded calls occur.                                                  *)
(***************************************************************************)
C10_DurationConstantWhilePaused ==
    [][(IsPaused /\ IsPaused') => GetCurrentTestRunDuration' = GetCurrentTestRunDuration]_vars

(***************************************************************************)
(* C11: GetCurrentTestRunDuration() is 0 while startTime is 0, and is      *)
(* otherwise min(endTime, currentPauseTime, now) - startTime -             *)
(* totalPausedDuration, the minimum taken over now and those of endTime    *)
(* and currentPauseTime that are set; in every reachable state, a run      *)
(* that ended while paused included.                                       *)
(***************************************************************************)
MinOf(S) == CHOOSE x \in S : \A y \in S : x <= y

\* the timestamps that are set, and the clock
SetTimestamps == {now} \cup ({endTime, currentPauseTime} \ {0})

MinFormulaDuration ==
    IF startTime = 0
      THEN 0
      ELSE MinOf(SetTimestamps) - startTime - totalPausedDuration

C11_DurationIsMinFormula == GetCurrentTestRunDuration = MinFormulaDuration

\* where the code and the formula agree: everywhere but in a run that ended
\* after the time at which it was paused
C11_AgreeUnlessEndedWhilePaused ==
    ~(endTime # 0 /\ currentPauseTime # 0 /\ currentPauseTime < endTime)
        => GetCurrentTestRunDuration = MinFormulaDuration

(***************************************************************************)
(* C12: a pause that begins before MarkStarted accumulates no paused       *)
(* time: while it lasts GetCurrentTestRunDuration() is 0, a Resume made    *)
(* while startTime is 0 leaves totalPausedDuration unchanged, and once the *)
(* run has started the duration leaves out only the time spent paused      *)
(* since the start.                                                        *)
(***************************************************************************)
\* the state is paused and the pause began before the run started
PauseBeganBeforeStart ==
    IsPaused /\ (startTime = 0 \/ currentPauseTime < startTime)

\* this step is a Resume that returned nil
ResumeSucceeds == calls' = calls + 1 /\ lastCall' = [op |-> "Resume", err |-> FALSE]

C12_NoTimeFromPauseBeforeStart ==
    /\ [](PauseBeganBeforeStart => GetCurrentTestRunDuration = 0)
    /\ [][(ResumeSucceeds /\ startTime = 0)
             => totalPausedDuration' = totalPausedDuration]_vars
    /\ []((HasStarted /\ ~IsPaused /\ ~HasEnded)
             => GetCurrentTestRunDuration = (now - startTime) - pausedTicks)

\* the same when the pause is over before MarkStarted is called
C12_HoldsWhenResumedBeforeStart ==
    ~pausedAtStart =>
        /\ PauseBeganBeforeStart => GetCurrentTestRunDuration = 0
        /\ (HasStarted /\ ~IsPaused /\ ~HasEnded)
              => GetCurrentTestRunDuration = (now - startTime) - pausedTicks

(***************************************************************************)
(* C13: when every pause begins after MarkStarted, totalPausedDuration is  *)
(* the sum over the Pause/Resume pairs of (time of Resume - time of        *)
(* Pause), that is the time that passed while paused, and after the last   *)
(* Resume GetCurrentTestRunDuration() is now - startTime minus that sum.   *)
(***************************************************************************)
C13_PausedDurationIsSumOfSpans ==
    ~pausedAtStart =>
        /\ ~IsPaused => totalPausedDuration = pausedTicks
        /\ (IsPaused /\ HasStarted)
              => totalPausedDuration + (now - currentPauseTime) = pausedTicks
        /\ (HasStarted /\ ~IsPaused /\ ~HasEnded)
              => GetCurrentTestRunDuration = (now - startTime) - pausedTicks

\* two Pause/Resume pairs after MarkStarted, each one tick long
C13_Witness ==
    /\ HasStarted
    /\ ~HasEnded
    /\ ~pausedAtStart
    /\ ~IsPaused
    /\ pausesOk = 2
    /\ resumesOk = 2
    /\ totalPausedDuration = 2
    /\ GetCurrentTestRunDuration = 0

(***************************************************************************)
(* C14: the channel ResumeNotify() returns is closed exactly when the      *)
(* state is not paused: the first one is closed, a successful Pause        *)
(* installs a new open channel, the matching Resume closes that channel,   *)
(* every channel handed out during an earlier pause is closed, and no      *)
(* channel is closed twice.                                                *)
(***************************************************************************)
\* ResumeNotify(): the channel in es.resumeNotify
ResumeNotify == resumeNotify

\* this step is a Pause that returned nil
PauseSucceeds == calls' = calls + 1 /\ lastCall' = [op |-> "Pause", err |-> FALSE]

ClosedIffNotPaused ==
    /\ (ResumeNotify \in chanClosed) <=> ~IsPaused
    /\ \A c \in 0..chanMade : c # ResumeNotify => c \in chanClosed

C14_ResumeNotifyClosedIffNotPaused ==
    /\ []ClosedIffNotPaused
    /\ [][PauseSucceeds => /\ ResumeNotify' \notin 0..chanMade
                           /\ ResumeNotify' \notin chanClosed']_vars
    /\ [][ResumeSucceeds => /\ ResumeNotify \notin chanClosed
                            /\ ResumeNotify' = ResumeNotify
                            /\ chanClosed' = chanClosed \cup {ResumeNotify}]_vars
    /\ [][chanClosed \subseteq chanClosed']_vars

\* a second pause right after a Resume: the channel of the first pause is
\* closed, the one of the second is open
C14_Witness ==
    /\ IsPaused
    /\ pausesOk = 2
    /\ resumesOk = 1
    /\ ResumeNotify = 2
    /\ chanClosed = {0, 1}

(***************************************************************************)
(* C15: of any number of MarkStarted calls exactly one proceeds, the first *)
(* to reach the compare-and-swap, and every other call panics; startTime   *)
(* is written once and never changes afterwards.                           *)
(***************************************************************************)
\* this step is a call of MarkStarted that changed what the last call was
MarkStartedCalled == lastCall' # lastCall /\ lastCall'.op = "MarkStarted"

C15_MarkStartedOnce ==
    /\ [][startTime # 0 => startTime' = startTime]_vars
    /\ [][startTime' # startTime =>
             /\ lastCall' = [op |-> "MarkStarted", err |-> FALSE]
             /\ startTime' = now]_vars
    /\ [][MarkStartedCalled => (lastCall'.err <=> startTime # 0)]_vars

\* a second MarkStarted panicked at a later time than the first
C15_Witness ==
    /\ lastCall = [op |-> "MarkStarted", err |-> TRUE]
    /\ startTime # 0
    /\ startTime < now

(***************************************************************************)
(* C16: of any number of MarkEnded calls exactly one proceeds and every    *)
(* other call panics; endTime is written once, HasEnded() is false before  *)
(* that write and true forever after.                                      *)
(***************************************************************************)
\* this step is a call of MarkEnded that changed what the last call was
MarkEndedCalled == lastCall' # lastCall /\ lastCall'.op = "MarkEnded"

C16_MarkEndedOnce ==
    /\ [][endTime # 0 => endTime' = endTime]_vars
    /\ [][endTime' # endTime =>
             /\ lastCall' = [op |-> "MarkEnded", err |-> FALSE]
             /\ endTime' = now
             /\ ~HasEnded]_vars
    /\ [][MarkEndedCalled => (lastCall'.err <=> HasEnded)]_vars
    /\ [][HasEnded => HasEnded']_vars

\* a second MarkEnded panicked at a later time than the first
C16_Witness ==
    /\ lastCall = [op |-> "MarkEnded", err |-> TRUE]
    /\ HasEnded
    /\ endTime < now

(***************************************************************************)
(* C17: in every reachable state exactly one of these holds: startTime is  *)
(* 0; endTime is 0 and startTime > 0; endTime > startTime.                 *)
(***************************************************************************)
TimestampCases ==
    <<startTime = 0, endTime = 0 /\ startTime > 0, endTime > startTime>>

C17_ExactlyOneTimestampCase ==
    Cardinality({k \in 1..Len(TimestampCases) : TimestampCases[k]}) = 1

\* what holds of the code: the cases that can fail need MarkEnded to be
\* called before MarkStarted or at the time of MarkStarted
C17_HoldsWhenEndedAfterStart ==
    (endTime = 0 \/ (startTime # 0 /\ startTime < endTime))
        => C17_ExactlyOneTimestampCase

(***************************************************************************)
(* C18: the execution status never changes to a status declared earlier    *)
(* than the current one.                                                   *)
(***************************************************************************)
C18_StatusOnlyMovesForward == [][executionStatus' >= executionStatus]_vars

(***************************************************************************)
(* C19: once the execution status is Ended or Interrupted, no later        *)
(* SetExecutionStatus, MarkStarted or MarkEnded changes it.                *)
(***************************************************************************)
TerminalStatus == {ExecutionStatusEnded, ExecutionStatusInterrupted}

C19_TerminalStatusStays ==
    [][(executionStatus \in TerminalStatus) => (executionStatus' = executionStatus)]_vars



(***************************************************************************)
(* C36: GetCurrentTestRunDuration() is never negative, whatever Pause,     *)
(* Resume, MarkStarted and MarkEnded calls were made: a Pause before       *)
(* MarkStarted that is still in force when MarkStarted runs, and a Resume  *)
(* after MarkEnded, included.                                              *)
(***************************************************************************)
C36_DurationNeverNegative == GetCurrentTestRunDuration >= 0

\* what holds of the code: the duration is not negative until MarkEnded when
\* no pause was in force at MarkStarted
C36_NonNegativeInOrderlyRuns ==
    (~pausedAtStart /\ endTime = 0) => GetCurrentTestRunDuration >= 0

(***************************************************************************)
(* C38: once MarkEnded has succeeded, GetCurrentTestRunDuration() returns  *)
(* the same value forever, whatever Pause or Resume calls follow.          *)
(***************************************************************************)
\* (stated for a test that was started before it ended, so that only Pause
\* and Resume calls are left to change the value)
C38_DurationFrozenAfterEnd ==
    [][(endTime # 0 /\ startTime # 0)
          => (GetCurrentTestRunDuration' = GetCurrentTestRunDuration)]_vars

\* what holds of the code: after MarkEnded the value changes only when a
\* Resume adds to totalPausedDuration
C38_FrozenUnlessPausedTimeAdded ==
    [][(endTime # 0 /\ startTime # 0 /\ totalPausedDuration' = totalPausedDuration)
          => (GetCurrentTestRunDuration' = GetCurrentTestRunDuration)]_vars

(***************************************************************************)
(* The event loop. A task is a func(): what it does when it runs is its    *)
(* kind:                                                                   *)
(*   "plain"    only counts itself as run,                                 *)
(*   "reserve"  calls Reserve and starts a goroutine that later calls the  *)
(*              returned function with a new task,                         *)
(*   "enqueue"  calls RunOnLoop with a new task,                           *)
(*   "cancel"   cancels the context given to Start.                        *)
(* RunOnLoop is called from the goroutine that calls Start (before Start)  *)
(* or from a task on the loop; the functions returned by Reserve are       *)
(* called from other goroutines.                                           *)
(***************************************************************************)
Kinds == {"plain", "reserve", "enqueue", "cancel"}

\* the kinds of the tasks that a task gives to RunOnLoop
EnqueuedKinds == {"plain", "enqueue"}

\* the kinds of the tasks given to a function returned by Reserve
CompletedKinds == {"plain", "reserve"}

NoTask == 0

LoopInit ==
    /\ queue = <<>>
    /\ reservedCount = 0
    /\ wakeupCh = 0
    /\ ctxDone = FALSE
    /\ spc = "idle"
    /\ lqueue = <<>>
    /\ cur = NoTask
    /\ tasks = <<>>
    /\ completers = {}
    /\ ran = <<>>
    /\ starts = 0
    /\ everCancelled = FALSE
    /\ leftoverWake = FALSE

TaskIds == 1..Len(tasks)

\* a task of this kind creates another task when it runs
CreatesTask(kind) == kind \in {"reserve", "enqueue"}

HasChild(t) == \E c \in TaskIds : tasks[c].parent = t

\* tasks that are still to be created by the tasks that exist
Promised == Cardinality({t \in TaskIds : CreatesTask(tasks[t].kind) /\ ~HasChild(t)})

Budget == MaxTasks - Len(tasks) - Promised

\* select { case e.wakeupCh <- struct{}{}: default: } (the mutant sends nothing)
SignalDropped(ch) == ch
Signal(ch) == 1

\* e.reservedCount++ in Reserve (the mutant forgets it)
ReserveForgets(n) == n
ReserveCount(n) == n + 1

\* e.queue = make([]func(), 0, len(queue)) in Start (the mutant keeps the tasks)
AcquiredQueueKept(q) == q
AcquiredQueue(q) == <<>>

\* reserved := e.reservedCount != 0 (the mutant misses a single reservation)
ReservedMoreThanOne(n) == n > 1
Reserved(n) == n # 0

\* len(queue) == 0 && !reserved: Start has nothing left to wait for
\* (the mutant ignores the reservations)
LoopFinishedIgnoringReserved(q, reserved) == Len(q) = 0
LoopFinished(q, reserved) == Len(q) = 0 /\ ~reserved

\* case <-done: in the select before each task (the mutant never sees it)
DoneBeforeTaskIgnored(done) == FALSE
DoneBeforeTask(done) == done

\* e.RunOnLoop(f) by the goroutine that owns the loop, outside Start; it
\* gives the loop no new task once it has cancelled a context
RunOnLoop(kind) ==
    /\ spc = "idle"
    /\ ~everCancelled
    /\ starts < MaxStarts
    /\ Budget >= (IF CreatesTask(kind) THEN 2 ELSE 1)
    /\ tasks' = Append(tasks, [kind |-> kind, epoch |-> starts + 1, parent |-> NoTask])
    /\ queue' = Append(queue, Len(tasks) + 1)
    /\ wakeupCh' = Signal(wakeupCh)
    /\ UNCHANGED <<reservedCount, ctxDone, spc, lqueue, cur, completers, ran, starts,
                   everCancelled, leftoverWake>>
    /\ UNCHANGED otherThanLoop

\* cancel() by another goroutine
CancelContext ==
    /\ spc # "idle"
    /\ ~ctxDone
    /\ ctxDone' = TRUE
    /\ everCancelled' = TRUE
    /\ UNCHANGED <<queue, reservedCount, wakeupCh, spc, lqueue, cur, tasks, completers,
                   ran, starts, leftoverWake>>
    /\ UNCHANGED otherThanLoop

\* loop.Start(ctx) is called, with the context of the Start call before or
\* with a fresh one (ctx, cancel := context.WithCancel(...))
StartCall(fresh) ==
    /\ spc = "idle"
    /\ starts < MaxStarts
    /\ starts' = starts + 1
    /\ spc' = "check"
    /\ ctxDone' = IF fresh THEN FALSE ELSE ctxDone
    /\ leftoverWake' = FALSE
    /\ UNCHANGED <<queue, reservedCount, wakeupCh, lqueue, cur, tasks, completers,
                   ran, everCancelled>>
    /\ UNCHANGED otherThanLoop

\* select { case <-done: return; default: } at the top of the loop
StartCheckDone ==
    /\ spc = "check"
    /\ spc' = IF ctxDone THEN "idle" ELSE "acquire"
    /\ UNCHANGED <<queue, reservedCount, wakeupCh, ctxDone, lqueue, cur, tasks, completers,
                   ran, starts, everCancelled, leftoverWake>>
    /\ UNCHANGED otherThanLoop

\* acquire the queue under queueLock; return if it is empty and nothing is
\* reserved, wait if it is empty and something is reserved
StartAcquire ==
    /\ spc = "acquire"
    /\ lqueue' = queue
    /\ queue' = AcquiredQueue(queue)
    /\ spc' = IF Len(queue) = 0
                THEN IF LoopFinished(queue, Reserved(reservedCount)) THEN "idle" ELSE "wait"
                ELSE "dispatch"
    /\ UNCHANGED <<reservedCount, wakeupCh, ctxDone, cur, tasks, completers,
                   ran, starts, everCancelled, leftoverWake>>
    /\ UNCHANGED otherThanLoop

\* select { case <-done: return ... } while waiting for a reservation
StartWaitDone ==
    /\ spc = "wait"
    /\ ctxDone
    /\ spc' = "idle"
    /\ UNCHANGED <<queue, reservedCount, wakeupCh, ctxDone, lqueue, cur, tasks, completers,
                   ran, starts, everCancelled, leftoverWake>>
    /\ UNCHANGED otherThanLoop

\* select { ... case <-e.wakeupCh: } and, the local queue being empty, back to
\* the top of the loop
StartWakeup ==
    /\ spc = "wait"
    /\ wakeupCh = 1
    /\ wakeupCh' = 0
    /\ spc' = "check"
    /\ leftoverWake' = (leftoverWake \/ queue = <<>>)
    /\ UNCHANGED <<queue, reservedCount, ctxDone, lqueue, cur, tasks, completers,
                   ran, starts, everCancelled>>
    /\ UNCHANGED otherThanLoop

\* for _, f := range queue { select { case <-done: return; default: f() } }:
\* the select before a task
StartDispatch ==
    /\ spc = "dispatch"
    /\ IF DoneBeforeTask(ctxDone)
         THEN /\ spc' = "idle"
              /\ lqueue' = <<>>
              /\ cur' = NoTask
         ELSE /\ spc' = "running"
              /\ lqueue' = Tail(lqueue)
              /\ cur' = Head(lqueue)
    /\ UNCHANGED <<queue, reservedCount, wakeupCh, ctxDone, tasks, completers,
                   ran, starts, everCancelled, leftoverWake>>
    /\ UNCHANGED otherThanLoop

\* where Start goes on after a task returned
AfterTask == IF lqueue = <<>> THEN "check" ELSE "dispatch"

\* f() for func() { ran++ }
RunPlainTask ==
    /\ spc = "running"
    /\ tasks[cur].kind = "plain"
    /\ ran' = Append(ran, cur)
    /\ spc' = AfterTask
    /\ cur' = NoTask
    /\ UNCHANGED <<queue, reservedCount, wakeupCh, ctxDone, lqueue, tasks, completers,
                   starts, everCancelled, leftoverWake>>
    /\ UNCHANGED otherThanLoop

\* f() for func() { ran++; r := loop.Reserve(); go func() { ...; r(g) }() }
RunReserveTask ==
    /\ spc = "running"
    /\ tasks[cur].kind = "reserve"
    /\ ran' = Append(ran, cur)
    /\ reservedCount' = ReserveCount(reservedCount)
    /\ completers' = completers \cup {[res |-> cur, st |-> "sleeping"]}
    /\ spc' = AfterTask
    /\ cur' = NoTask
    /\ UNCHANGED <<queue, wakeupCh, ctxDone, lqueue, tasks,
                   starts, everCancelled, leftoverWake>>
    /\ UNCHANGED otherThanLoop

\* f() for func() { ran++; loop.RunOnLoop(g) }
RunEnqueueTask(kind) ==
    /\ spc = "running"
    /\ tasks[cur].kind = "enqueue"
    /\ CreatesTask(kind) => Budget >= 1
    /\ ran' = Append(ran, cur)
    /\ tasks' = Append(tasks, [kind |-> kind, epoch |-> tasks[cur].epoch, parent |-> cur])
    /\ queue' = Append(queue, Len(tasks) + 1)
    /\ wakeupCh' = Signal(wakeupCh)
    /\ spc' = AfterTask
    /\ cur' = NoTask
    /\ UNCHANGED <<reservedCount, ctxDone, lqueue, completers,
                   starts, everCancelled, leftoverWake>>
    /\ UNCHANGED otherThanLoop

\* f() for func() { ran++; cancel() }
RunCancelTask ==
    /\ spc = "running"
    /\ tasks[cur].kind = "cancel"
    /\ ran' = Append(ran, cur)
    /\ ctxDone' = TRUE
    /\ everCancelled' = TRUE
    /\ spc' = AfterTask
    /\ cur' = NoTask
    /\ UNCHANGED <<queue, reservedCount, wakeupCh, lqueue, tasks, completers,
                   starts, leftoverWake>>
    /\ UNCHANGED otherThanLoop

\* the function returned by Reserve, called with a task g, under queueLock:
\* e.queue = append(e.queue, g); e.reservedCount--
CompleterAppend(c, kind) ==
    /\ c \in completers
    /\ c.st = "sleeping"
    /\ CreatesTask(kind) => Budget >= 1
    /\ tasks' = Append(tasks, [kind |-> kind, epoch |-> tasks[c.res].epoch, parent |-> c.res])
    /\ queue' = Append(queue, Len(tasks) + 1)
    /\ reservedCount' = reservedCount - 1
    /\ completers' = (completers \ {c}) \cup {[res |-> c.res, st |-> "signal"]}
    /\ UNCHANGED <<wakeupCh, ctxDone, spc, lqueue, cur, ran, starts,
                   everCancelled, leftoverWake>>
    /\ UNCHANGED otherThanLoop

\* ... then, outside the lock, the non-blocking send on wakeupCh
CompleterSignal(c) ==
    /\ c \in completers
    /\ c.st = "signal"
    /\ wakeupCh' = Signal(wakeupCh)
    /\ completers' = completers \ {c}
    /\ UNCHANGED <<queue, reservedCount, ctxDone, spc, lqueue, cur, tasks, ran, starts,
                   everCancelled, leftoverWake>>
    /\ UNCHANGED otherThanLoop

AllCompleters == [res : 1..(MaxTasks + 1), st : {"sleeping", "signal"}]

StartStep ==
    \/ StartCheckDone
    \/ StartAcquire
    \/ StartWaitDone
    \/ StartWakeup
    \/ StartDispatch
    \/ RunPlainTask
    \/ RunReserveTask
    \/ \E k \in EnqueuedKinds : RunEnqueueTask(k)
    \/ RunCancelTask

CompleterStep ==
    \/ \E c \in AllCompleters, k \in CompletedKinds : CompleterAppend(c, k)
    \/ \E c \in AllCompleters : CompleterSignal(c)

NextLoop ==
    \/ \E k \in Kinds : RunOnLoop(k)
    \/ CancelContext
    \/ \E fresh \in BOOLEAN : StartCall(fresh)
    \/ StartStep
    \/ CompleterStep

(***************************************************************************)
(* What the loop has done.                                                 *)
(***************************************************************************)
\* number of times task t was run
RunCount(t) == Cardinality({k \in 1..Len(ran) : ran[k] = t})

HasRun(t) == RunCount(t) > 0

\* this step is a return of Start
StartReturns == spc # "idle" /\ spc' = "idle"

\* this step is Start calling a task
TaskStarts == spc = "dispatch" /\ spc' = "running"

\* the task that the function returned to reserving task t was called with
CompletedTasks(t) == {c \in TaskIds : tasks[c].parent = t}

(***************************************************************************)
(* C4: Start returns only in a state where the queue is empty and          *)
(* reservedCount is 0, or where its context is done; a signal left in      *)
(* wakeupCh while a reservation is outstanding does not make it return.    *)
(***************************************************************************)
C4_StartReturnsOnlyWhenFinished ==
    [][StartReturns => ((queue' = <<>> /\ reservedCount' = 0) \/ ctxDone')]_vars

\* Start returned with a live context after a wakeup that found nothing to run
C4_Witness ==
    /\ spc = "idle"
    /\ starts = 1
    /\ leftoverWake
    /\ ~ctxDone
    /\ ran # <<>>
    /\ queue = <<>>
    /\ reservedCount = 0

(***************************************************************************)
(* C5: absent cancellation, Start does not return before the function      *)
(* returned by every Reserve made by a task it ran has been called and     *)
(* the task given to it has run; with a single reserving task whose        *)
(* completion is a plain task, 2 tasks have run when Start returns.        *)
(***************************************************************************)
ReservationsDone ==
    \A t \in TaskIds :
        (tasks[t].kind = "reserve" /\ HasRun(t)) =>
            /\ \A c \in completers : c.res = t => c.st # "sleeping"
            /\ CompletedTasks(t) # {}
            /\ \A g \in CompletedTasks(t) : HasRun(g)

OneReservingTask ==
    /\ Len(tasks) = 2
    /\ tasks[1] = [kind |-> "reserve", epoch |-> 1, parent |-> NoTask]
    /\ tasks[2] = [kind |-> "plain", epoch |-> 1, parent |-> 1]

C5_StartWaitsForReservations ==
    [][(StartReturns /\ ~everCancelled') =>
          /\ ReservationsDone'
          /\ OneReservingTask' => ran' = <<1, 2>>]_vars

\* the run of TestEventLoopReserve: Start returned after both tasks ran
C5_Witness ==
    /\ spc = "idle"
    /\ starts = 1
    /\ ~everCancelled
    /\ OneReservingTask
    /\ ran = <<1, 2>>
    /\ completers = {}

(***************************************************************************)
(* C6: the tasks enqueued with RunOnLoop before a Start with a live        *)
(* context are each run exactly once by it, and Start then returns; no     *)
(* task is ever run twice, so a later Start runs only the tasks enqueued   *)
(* after the one before returned.                                          *)
(***************************************************************************)
NoTaskRunsTwice == \A t \in TaskIds : RunCount(t) <= 1

AllTasksRanOnce == \A t \in TaskIds : RunCount(t) = 1

C6_StartRunsEachTaskOnce ==
    /\ []NoTaskRunsTwice
    /\ [][(StartReturns /\ ~everCancelled') => AllTasksRanOnce']_vars
    /\ ((spc # "idle" /\ ~everCancelled) ~> (spc = "idle"))

\* the run of TestBasicEventLoop: one task and Start, two tasks and Start
C6_Witness ==
    /\ spc = "idle"
    /\ starts = 2
    /\ ~everCancelled
    /\ Len(tasks) = 3
    /\ \A t \in TaskIds : tasks[t].kind = "plain"
    /\ tasks[1].epoch = 1 /\ tasks[2].epoch = 2 /\ tasks[3].epoch = 2
    /\ ran = <<1, 2, 3>>

(***************************************************************************)
(* C7: once the context given to Start is done, Start calls no further     *)
(* task, and it returns.                                                   *)
(***************************************************************************)
C7_NoTaskAfterDone ==
    /\ [][ctxDone => ~TaskStarts]_vars
    /\ ((spc # "idle" /\ ctxDone) ~> (spc = "idle"))

\* the third Start of TestBasicEventLoop: a task cancelled the context, the
\* task queued after it was not run and Start returned
C7_Witness ==
    /\ spc = "idle"
    /\ ctxDone
    /\ \E t \in TaskIds :
          /\ t + 1 \in TaskIds
          /\ tasks[t] = [kind |-> "cancel", epoch |-> starts, parent |-> NoTask]
          /\ tasks[t + 1] = [kind |-> "plain", epoch |-> starts, parent |-> NoTask]
          /\ HasRun(t)
          /\ ~HasRun(t + 1)

(***************************************************************************)
(* C8: a script phase is one task given to RunOnLoop followed by Start;    *)
(* its setTimeout is a Reserve whose function is called with the callback. *)
(* The output of a phase comes before the output of its timer callback,    *)
(* and that before the output of the next phase; for the script of S1 the  *)
(* log is B, A, D, C.                                                      *)
(***************************************************************************)
\* the task of a script phase that calls setTimeout(cb) and logs
ScriptPhaseTask == "reserve"

\* the task of a timer callback that logs
TimerCallbackTask == "plain"

\* the phases are run in order, each timer callback within its phase
PhasesInOrder ==
    /\ \A i, j \in 1..Len(ran) : i < j => tasks[ran[i]].epoch <= tasks[ran[j]].epoch
    /\ \A j \in 1..Len(ran) :
          tasks[ran[j]].parent # NoTask =>
              \E i \in 1..(j - 1) : ran[i] = tasks[ran[j]].parent
    /\ spc = "idle" => \A t \in TaskIds : tasks[t].epoch <= starts => HasRun(t)

\* the script of S1: phase 1 is the init context, phase 2 the default function
S1Script ==
    /\ tasks # <<>> => tasks[1].epoch = 1
    /\ \A t \in TaskIds :
          /\ tasks[t].epoch <= 2
          /\ tasks[t].kind =
                IF tasks[t].parent = NoTask THEN ScriptPhaseTask ELSE TimerCallbackTask
    /\ \A t, u \in TaskIds :
          (t # u /\ tasks[t].parent = NoTask /\ tasks[u].parent = NoTask)
              => tasks[t].epoch # tasks[u].epoch

S1Message(t) ==
    IF tasks[t].parent = NoTask
      THEN (IF tasks[t].epoch = 1 THEN "B" ELSE "D")
      ELSE (IF tasks[t].epoch = 1 THEN "A" ELSE "C")

S1Log == [k \in 1..Len(ran) |-> S1Message(ran[k])]

S1Expected == <<"B", "A", "D", "C">>

EnqueuedBefore(t, u) == t < u

Members(q) == {q[k] : k \in 1..Len(q)}

\* the tasks of the current drain cycle that are not over: the task being
\* run and the rest of the snapshot
Snapshot == Members(lqueue) \cup ({cur} \ {NoTask})

\* this step enqueues a task
TaskEnqueued == Len(tasks') = Len(tasks) + 1

C29_SnapshotRunsBeforeNewTasks ==
    /\ [](/\ \A i, j \in 1..Len(ran) : i < j => EnqueuedBefore(ran[i], ran[j])
          /\ \A i, j \in 1..Len(lqueue) : i < j => EnqueuedBefore(lqueue[i], lqueue[j])
          /\ \A t \in Snapshot, u \in Members(queue) : EnqueuedBefore(t, u)
          /\ \A t \in Members(lqueue) : cur # NoTask => EnqueuedBefore(cur, t)
          /\ spc = "acquire" => Snapshot = {})
    /\ [][/\ TaskEnqueued
                => /\ queue' = Append(queue, Len(tasks'))
                   /\ lqueue' = lqueue
          /\ TaskStarts
                => /\ cur' = Head(lqueue)
                   /\ cur' \notin Members(queue)]_vars

\* one Start ran two tasks of its first snapshot and then, in a later cycle,
\* the task that the first of them had enqueued
C29_Witness ==
    /\ starts = 1
    /\ ran = <<1, 2, 3>>
    /\ tasks[1].kind = "enqueue"
    /\ tasks[2].parent = NoTask
    /\ tasks[3].parent = 1

(***************************************************************************)
(* C30: when the context is cancelled while every task that runs enqueues  *)
(* a further task, so that the queue is never empty, Start still returns:  *)
(* no task starts after the cancellation, and only the task that was       *)
(* running then completes.                                                 *)
(***************************************************************************)
\* every task run so far, the running one included, enqueues a further task
TaskStorm ==
    /\ ran # <<>>
    /\ \A t \in Members(ran) \cup ({cur} \ {NoTask}) : tasks[t].kind = "enqueue"

StormCancelled == TaskStorm /\ ctxDone /\ spc # "idle"

C30_StormCannotStarveCancellation ==
    /\ [][StormCancelled
             => /\ ~TaskStarts
                /\ ran' # ran => (spc = "running" /\ spc' \in {"check", "dispatch"})
                /\ (spc \in {"check", "dispatch"} /\ spc' # spc) => StartReturns]_vars
    /\ (StormCancelled ~> (spc = "idle"))

\* Start returned on a cancelled context after a chain of enqueueing tasks,
\* leaving behind the task that the last of them enqueued
C30_Witness ==
    /\ spc = "idle"
    /\ ctxDone
    /\ TaskStorm
    /\ Len(ran) >= 2
    /\ queue # <<>>
    /\ tasks[ran[Len(ran)]].parent = ran[Len(ran) - 1]

(***************************************************************************)
(* C31: with a context that is never cancelled, Start returns, and when it *)
(* returns every enqueued task has run exactly once and every completer    *)
(* has been called; no wakeup is lost: when a completer has appended its   *)
(* task and sent its signal while Start is between its snapshot and its    *)
(* wait on wakeupCh, the signal is in wakeupCh.                            *)
(***************************************************************************)
\* a completer has been handed out and not called yet
Outstanding == {c \in completers : c.st = "sleeping"}

\* a completer has appended its task and has not sent its signal yet
Signalling == {c \in completers : c.st = "signal"}

\* Start returned with nothing left to do
StartFinished ==
    /\ spc = "idle"
    /\ AllTasksRanOnce
    /\ queue = <<>>
    /\ reservedCount = 0
    /\ Outstanding = {}

C31_StartReturnsNoWakeupLost ==
    /\ []((spc = "wait" /\ queue # <<>> /\ Signalling = {}) => wakeupCh = 1)
    /\ ((spc # "idle") ~> (everCancelled \/ StartFinished))

\* a completer appended its task and signalled after Start took an empty
\* snapshot and before Start received from wakeupCh
C31_Witness ==
    /\ spc = "wait"
    /\ ~everCancelled
    /\ queue # <<>>
    /\ completers = {}
    /\ wakeupCh = 1

(***************************************************************************)
(* C32: reservedCount is the number of completers returned by Reserve and  *)
(* not called yet, and so is never negative.                               *)
(***************************************************************************)
C32_ReservedCountsOutstanding ==
    /\ reservedCount = Cardinality(Outstanding)
    /\ reservedCount >= 0

\* two reservations are outstanding
C32_Witness ==
    /\ reservedCount = 2
    /\ Cardinality(Outstanding) = 2

(***************************************************************************)
(* C39: when Start returns, for any reason, the queue of the loop is       *)
(* empty, so that a later Start runs only tasks enqueued after the         *)
(* earlier Start returned.                                                 *)
(***************************************************************************)
C39_QueueEmptyWhenStartReturns ==
    [][StartReturns => queue' = <<>>]_vars

\* the queue is empty whenever Start returns on a context that is not done
C39_EmptyUnlessCancelled ==
    [][(StartReturns /\ ~ctxDone') => queue' = <<>>]_vars

(***************************************************************************)
(* GetUniqueVUIdentifiers. The SegmentedIndex is a pair of indexes that    *)
(* start before 1; Next advances the scaled index by one and the unscaled  *)
(* index by the stride of the execution segment, reading and then writing  *)
(* its fields, and returns the new pair.                                   *)
(***************************************************************************)
Goroutines == {"g1", "g2"}

NoGoroutine == "none"

NoIds == [scaled |-> 0, unscaled |-> 0]

IdsInit ==
    /\ vuIDSegIndexMx = NoGoroutine
    /\ vuIDSegIndex = NoIds
    /\ idPc = [g \in Goroutines |-> "idle"]
    /\ idLoc = [g \in Goroutines |-> NoIds]
    /\ idsReturned = <<>>

\* the calls made so far: the ones that returned and the ones under way
IdCalls == Len(idsReturned) + Cardinality({g \in Goroutines : idPc[g] # "idle"})

\* es.vuIDSegIndexMx.Lock() can go on (the mutant does not wait for the holder)
MutexAlwaysFree(holder) == TRUE
MutexFree(holder) == holder = NoGoroutine

\* es.vuIDSegIndexMx.Lock()
GetUniqueVUIdentifiers_Lock(g) ==
    /\ idPc[g] = "idle"
    /\ IdCalls < MaxIds
    /\ MutexFree(vuIDSegIndexMx)
    /\ vuIDSegIndexMx' = g
    /\ idPc' = [idPc EXCEPT ![g] = "locked"]
    /\ UNCHANGED <<vuIDSegIndex, idLoc, idsReturned>>
    /\ UNCHANGED otherThanIds

\* es.vuIDSegIndex.Next(): the fields are read
SegmentedIndexNext_Read(g) ==
    /\ idPc[g] = "locked"
    /\ idLoc' = [idLoc EXCEPT ![g] = vuIDSegIndex]
    /\ idPc' = [idPc EXCEPT ![g] = "next"]
    /\ UNCHANGED <<vuIDSegIndexMx, vuIDSegIndex, idsReturned>>
    /\ UNCHANGED otherThanIds

\* es.vuIDSegIndex.Next(): the fields are advanced and written back
SegmentedIndexNext_Write(g, stride) ==
    /\ idPc[g] = "next"
    /\ vuIDSegIndex' = [scaled |-> idLoc[g].scaled + 1,
                        unscaled |-> idLoc[g].unscaled + stride]
    /\ idLoc' = [idLoc EXCEPT ![g] = vuIDSegIndex']
    /\ idPc' = [idPc EXCEPT ![g] = "unlock"]
    /\ UNCHANGED <<vuIDSegIndexMx, idsReturned>>
    /\ UNCHANGED otherThanIds

\* defer es.vuIDSegIndexMx.Unlock(); return uint64(scaled), uint64(unscaled)
GetUniqueVUIdentifiers_Return(g) ==
    /\ idPc[g] = "unlock"
    /\ vuIDSegIndexMx' = NoGoroutine
    /\ idsReturned' = Append(idsReturned, idLoc[g])
    /\ idLoc' = [idLoc EXCEPT ![g] = NoIds]
    /\ idPc' = [idPc EXCEPT ![g] = "idle"]
    /\ UNCHANGED vuIDSegIndex
    /\ UNCHANGED otherThanIds

NextIds ==
    \/ \E g \in Goroutines : GetUniqueVUIdentifiers_Lock(g)
    \/ \E g \in Goroutines : SegmentedIndexNext_Read(g)
    \/ \E g \in Goroutines, stride \in 1..MaxStride : SegmentedIndexNext_Write(g, stride)
    \/ \E g \in Goroutines : GetUniqueVUIdentifiers_Return(g)

(***************************************************************************)
(* C24: n calls of GetUniqueVUIdentifiers, in any interleaving of          *)
(* concurrent callers, return n distinct scaled values and n distinct      *)
(* unscaled values, and the first call returns the scaled value 1.         *)
(***************************************************************************)
C24_IdentifiersDistinct ==
    /\ \A i, j \in 1..Len(idsReturned) :
          i # j => /\ idsReturned[i].scaled # idsReturned[j].scaled
                   /\ idsReturned[i].unscaled # idsReturned[j].unscaled
    /\ idsReturned # <<>> => idsReturned[1].scaled = 1

\* three calls have returned, the last one with an unscaled value that shows
\* a stride above one
C24_Witness ==
    /\ Len(idsReturned) = 3
    /\ idsReturned[3].scaled = 3
    /\ idsReturned[3].unscaled > 3

(***************************************************************************)
(* The iteration counters.                                                 *)
(***************************************************************************)
NoAdd == [counter |-> "none", count |-> 0, ret |-> 0]

IterationsInit ==
    /\ fullIterationsCount = 0
    /\ interruptedIterationsCount = 0
    /\ addCalls = 0
    /\ lastAdd = NoAdd
    /\ readPc = "idle"
    /\ readFull = 0
    /\ sums = <<>>

\* atomic.AddUint64(addr, delta): the new value (the mutant stores delta)
StoreUint64(val, delta) == delta
AddUint64(val, delta) == val + delta

\* the counters stay far below 2^64: the iterations counted are bounded
CountsAllowed == 0..MaxCount

RoomFor(count) ==
    /\ addCalls < MaxAdds
    /\ fullIterationsCount + interruptedIterationsCount + count <= MaxIterations

\* AddFullIterations(count)
AddFullIterations(count) ==
    /\ RoomFor(count)
    /\ fullIterationsCount' = AddUint64(fullIterationsCount, count)
    /\ addCalls' = addCalls + 1
    /\ lastAdd' = [counter |-> "full", count |-> count, ret |-> fullIterationsCount']
    /\ UNCHANGED <<interruptedIterationsCount, readPc, readFull, sums>>
    /\ UNCHANGED otherThanIterations

\* AddInterruptedIterations(count)
AddInterruptedIterations(count) ==
    /\ RoomFor(count)
    /\ interruptedIterationsCount' = AddUint64(interruptedIterationsCount, count)
    /\ addCalls' = addCalls + 1
    /\ lastAdd' = [counter |-> "interrupted", count |-> count,
                   ret |-> interruptedIterationsCount']
    /\ UNCHANGED <<fullIterationsCount, readPc, readFull, sums>>
    /\ UNCHANGED otherThanIterations

\* GetFullIterationCount(), the first operand of a reader's sum
GetFullIterationCount ==
    /\ readPc = "idle"
    /\ Len(sums) < MaxReads
    /\ readFull' = fullIterationsCount
    /\ readPc' = "partial"
    /\ UNCHANGED <<fullIterationsCount, interruptedIterationsCount, addCalls, lastAdd, sums>>
    /\ UNCHANGED otherThanIterations

\* GetPartialIterationCount(), the second operand: the reader has its sum
GetPartialIterationCount ==
    /\ readPc = "partial"
    /\ sums' = Append(sums, readFull + interruptedIterationsCount)
    /\ readPc' = "idle"
    /\ UNCHANGED <<fullIterationsCount, interruptedIterationsCount, addCalls, lastAdd,
                   readFull>>
    /\ UNCHANGED otherThanIterations

NextIterations ==
    \/ \E count \in CountsAllowed : AddFullIterations(count)
    \/ \E count \in CountsAllowed : AddInterruptedIterations(count)
    \/ GetFullIterationCount
    \/ GetPartialIterationCount

(***************************************************************************)
(* C25: the sums GetFullIterationCount() + GetPartialIterationCount()      *)
(* observed by successive reads never decrease, whatever Add calls are     *)
(* interleaved with the reads, and each Add call raises its counter by     *)
(* exactly the given count, leaving the other counter alone.               *)
(***************************************************************************)
AddCalled == addCalls' # addCalls

C25_IterationSumMonotone ==
    /\ [](\A k \in 1..(Len(sums) - 1) : sums[k] <= sums[k + 1])
    /\ [][/\ fullIterationsCount' + interruptedIterationsCount'
                >= fullIterationsCount + interruptedIterationsCount
          /\ (AddCalled /\ lastAdd'.counter = "full")
                => /\ fullIterationsCount' = fullIterationsCount + lastAdd'.count
                   /\ interruptedIterationsCount' = interruptedIterationsCount
                   /\ lastAdd'.ret = fullIterationsCount'
          /\ (AddCalled /\ lastAdd'.counter = "interrupted")
                => /\ interruptedIterationsCount'
                         = interruptedIterationsCount + lastAdd'.count
                   /\ fullIterationsCount' = fullIterationsCount
                   /\ lastAdd'.ret = interruptedIterationsCount'
          /\ ~AddCalled
                => /\ fullIterationsCount' = fullIterationsCount
                   /\ interruptedIterationsCount' = interruptedIterationsCount]_vars

\* two reads saw growing sums, and the second one had an Add between its two
\* loads: its sum is not the sum of the counters at either load
C25_Witness ==
    /\ Len(sums) = 2
    /\ sums[1] < sums[2]
    /\ readPc = "idle"
    /\ fullIterationsCount > 0
    /\ interruptedIterationsCount > 0
    /\ sums[2] < fullIterationsCount + interruptedIterationsCount

(***************************************************************************)
(* TagMap: a Go map behind a reader/writer lock. Every method holds the    *)
(* lock for its whole body, so each method is one step. Go maps are        *)
(* references: two variables can refer to the same map.                    *)
(***************************************************************************)
Keys == {"k1", "k2"}

Values == {"v1", "v2"}

\* the key is not in the map
Absent == "absent"

EmptyMap == [k \in Keys |-> Absent]

MapRefs == 1..MaxMaps

NoMap == 0

\* tg.m, the map made by NewTagMap(nil)
TagMapRef == 1

\* NewTagMap(nil): m = make(map[string]string)
TagsInit ==
    /\ maps = [r \in MapRefs |-> EmptyMap]
    /\ allocated = 1
    /\ cloneRef = NoMap
    /\ lastTagOp = "none"

\* make(map[string]string, n): a reference to a new map (the mutant hands out
\* the map of the TagMap itself)
MakeMapReusing(made) == TagMapRef
MakeMap(made) == made + 1

\* for k, v := range src { dst[k] = v }
CopyInto(dst, src) == [k \in Keys |-> IF src[k] # Absent THEN src[k] ELSE dst[k]]

\* tg.Get(k)
TagMapGet(k) == [value |-> IF maps[TagMapRef][k] = Absent THEN "" ELSE maps[TagMapRef][k],
                 found |-> maps[TagMapRef][k] # Absent]

\* len(m)
MapLen(m) == Cardinality({k \in Keys : m[k] # Absent})

\* tg.Len()
TagMapLen == MapLen(maps[TagMapRef])

\* tg.Set(k, v)
TagMapSet(k, v) ==
    /\ maps' = [maps EXCEPT ![TagMapRef][k] = v]
    /\ lastTagOp' = "Set"
    /\ UNCHANGED <<allocated, cloneRef>>
    /\ UNCHANGED otherThanTags

\* tg.Delete(k)
TagMapDelete(k) ==
    /\ maps' = [maps EXCEPT ![TagMapRef][k] = Absent]
    /\ lastTagOp' = "Delete"
    /\ UNCHANGED <<allocated, cloneRef>>
    /\ UNCHANGED otherThanTags

\* tg.Clone()
TagMapClone ==
    /\ allocated < MaxMaps
    /\ LET tags == MakeMap(allocated)
       IN /\ maps' = [maps EXCEPT ![tags] = CopyInto(maps[tags], maps[TagMapRef])]
          /\ cloneRef' = tags
    /\ allocated' = allocated + 1
    /\ lastTagOp' = "Clone"
    /\ UNCHANGED otherThanTags

\* the caller of Clone writes to the map it got: tags[k] = v
CloneSet(k, v) ==
    /\ cloneRef # NoMap
    /\ maps' = [maps EXCEPT ![cloneRef][k] = v]
    /\ lastTagOp' = "cloneSet"
    /\ UNCHANGED <<allocated, cloneRef>>
    /\ UNCHANGED otherThanTags

\* the caller of Clone deletes from the map it got: delete(tags, k)
CloneDelete(k) ==
    /\ cloneRef # NoMap
    /\ maps' = [maps EXCEPT ![cloneRef][k] = Absent]
    /\ lastTagOp' = "cloneDelete"
    /\ UNCHANGED <<allocated, cloneRef>>
    /\ UNCHANGED otherThanTags

NextTags ==
    \/ \E k \in Keys, v \in Values : TagMapSet(k, v)
    \/ \E k \in Keys : TagMapDelete(k)
    \/ TagMapClone
    \/ \E k \in Keys, v \in Values : CloneSet(k, v)
    \/ \E k \in Keys : CloneDelete(k)

(***************************************************************************)
(* C26: the map returned by TagMap.Clone() is independent of the TagMap:   *)
(* a write to or a delete from the clone leaves Get and Len of the         *)
(* original unchanged, a later Set or Delete on the original leaves the    *)
(* clone unchanged, and when Clone returns the clone holds exactly the     *)
(* pairs of the original.                                                  *)
(***************************************************************************)
C26_CloneIndependent ==
    [][/\ lastTagOp' \in {"cloneSet", "cloneDelete"}
             => /\ \A k \in Keys : TagMapGet(k)' = TagMapGet(k)
                /\ TagMapLen' = TagMapLen
       /\ (lastTagOp' \in {"Set", "Delete"} /\ cloneRef # NoMap)
             => maps'[cloneRef] = maps[cloneRef]
       /\ lastTagOp' = "Clone"
             => /\ maps'[cloneRef'] = maps[TagMapRef]
                /\ maps'[TagMapRef] = maps[TagMapRef]]_vars

\* after a Clone of a TagMap with two tags, the clone lost a key and got
\* another value while the original lost the other key
C26_Witness ==
    /\ cloneRef # NoMap
    /\ lastTagOp = "Delete"
    /\ maps[TagMapRef] = [EmptyMap EXCEPT !["k1"] = "v1"]
    /\ maps[cloneRef] = [EmptyMap EXCEPT !["k2"] = "v1"]

(***************************************************************************)
(* K6.Check(arg0, checks, extras...)                                       *)
(***************************************************************************)
\* a check is a value or a function of arg0; a function returns a value or throws
CheckValues == {"true", "false", "fnTrue", "fnFalse", "fnThrows"}

Callable == {"fnTrue", "fnFalse", "fnThrows"}

NoReturn == [ok |-> FALSE, err |-> "none"]

CheckInit ==
    /\ ckPc = "idle"
    /\ ckChecks = <<>>
    /\ ckIdx = 0
    /\ ckVal = FALSE
    /\ ckSucc = FALSE
    /\ ckExc = FALSE
    /\ ckCtxDone = FALSE
    /\ ckPasses = 0
    /\ ckFails = 0
    /\ ckRet = NoReturn
    /\ ckEvaluated = <<>>

CheckLists == UNION {[1..n -> CheckValues] : n \in 0..MaxChecks}

\* fn, ok := goja.AssertFunction(val); tmpVal, err := fn(undefined, arg0):
\* the value the check resolves to (on an exception val = rt.ToValue(false))
Resolved(check) == check \in {"true", "fnTrue"}

\* the loop over obj.Keys() goes on to check number idx, or Check returns
AfterCheck(idx) == IF idx <= Len(ckChecks) THEN "resolve" ELSE "return"

\* state := k.GetState(); if state == nil { return false, ErrCheckInInitContext };
\* succ := true; var exc error
CheckCall(checks, inInitContext) ==
    /\ ckPc = "idle"
    /\ ckChecks' = checks
    /\ IF inInitContext
         THEN /\ ckPc' = "returned"
              /\ ckRet' = [ok |-> FALSE, err |-> "ErrCheckInInitContext"]
              /\ UNCHANGED <<ckIdx, ckSucc>>
         ELSE /\ ckIdx' = 1
              /\ ckSucc' = TRUE
              /\ ckPc' = IF checks # <<>> THEN "resolve" ELSE "return"
              /\ UNCHANGED ckRet
    /\ UNCHANGED <<ckVal, ckExc, ckCtxDone, ckPasses, ckFails, ckEvaluated>>
    /\ UNCHANGED otherThanCheck

\* check, err := state.Group.Check(name); if err != nil { return false, err };
\* then the callable is resolved into a value
CheckResolve(groupOk) ==
    /\ ckPc = "resolve"
    /\ IF groupOk
         THEN /\ ckVal' = Resolved(ckChecks[ckIdx])
              /\ ckExc' = (ckChecks[ckIdx] = "fnThrows")
              /\ ckEvaluated' = Append(ckEvaluated, Resolved(ckChecks[ckIdx]))
              /\ ckPc' = "emit"
              /\ UNCHANGED ckRet
         ELSE /\ ckPc' = "returned"
              /\ ckRet' = [ok |-> FALSE, err |-> "group"]
              /\ UNCHANGED <<ckVal, ckExc, ckEvaluated>>
    /\ UNCHANGED <<ckChecks, ckIdx, ckSucc, ckCtxDone, ckPasses, ckFails>>
    /\ UNCHANGED otherThanCheck

\* select { case <-ctx.Done(): default: if val.ToBoolean() { Passes++ }
\*          else { Fails++; succ = false } };
\* if exc != nil { return succ, exc }
CheckEmit ==
    /\ ckPc = "emit"
    /\ IF ckCtxDone
         THEN UNCHANGED <<ckPasses, ckFails, ckSucc>>
         ELSE IF ckVal
                THEN /\ ckPasses' = ckPasses + 1
                     /\ UNCHANGED <<ckFails, ckSucc>>
                ELSE /\ ckFails' = ckFails + 1
                     /\ ckSucc' = FALSE
                     /\ UNCHANGED ckPasses
    /\ IF ckExc
         THEN /\ ckRet' = [ok |-> ckSucc', err |-> "exception"]
              /\ ckPc' = "returned"
              /\ UNCHANGED ckIdx
         ELSE /\ ckIdx' = ckIdx + 1
              /\ ckPc' = AfterCheck(ckIdx + 1)
              /\ UNCHANGED ckRet
    /\ UNCHANGED <<ckChecks, ckVal, ckExc, ckCtxDone, ckEvaluated>>
    /\ UNCHANGED otherThanCheck

\* return succ, nil
CheckReturn ==
    /\ ckPc = "return"
    /\ ckRet' = [ok |-> ckSucc, err |-> "nil"]
    /\ ckPc' = "returned"
    /\ UNCHANGED <<ckChecks, ckIdx, ckVal, ckSucc, ckExc, ckCtxDone, ckPasses, ckFails,
                   ckEvaluated>>
    /\ UNCHANGED otherThanCheck

\* the context of the VU is cancelled (the iteration is interrupted)
CancelVUContext ==
    /\ ~ckCtxDone
    /\ ckCtxDone' = TRUE
    /\ UNCHANGED <<ckPc, ckChecks, ckIdx, ckVal, ckSucc, ckExc, ckPasses, ckFails, ckRet,
                   ckEvaluated>>
    /\ UNCHANGED otherThanCheck

NextCheck ==
    \/ \E checks \in CheckLists, inInit \in BOOLEAN : CheckCall(checks, inInit)
    \/ \E groupOk \in BOOLEAN : CheckResolve(groupOk)
    \/ CheckEmit
    \/ CheckReturn
    \/ CancelVUContext

(***************************************************************************)
(* C27: whatever the checks and whatever the state of the VU context,      *)
(* Check returns true only if every check value it evaluated is truthy.    *)
(***************************************************************************)
CheckReturnedTrue == ckPc = "returned" /\ ckRet.ok

AllEvaluatedTruthy == \A k \in 1..Len(ckEvaluated) : ckEvaluated[k]

C27_TrueOnlyIfAllTruthy == CheckReturnedTrue => AllEvaluatedTruthy

\* the property holds for the calls whose context is not done when they return
C27_HoldsWhileContextLive == (CheckReturnedTrue /\ ~ckCtxDone) => AllEvaluatedTruthy

(***************************************************************************)
(* ExecutionScheduler.Run(globalCtx, runCtx, ...) and its executors, after *)
(* the description of the scheduler: MarkStarted; Setup, if there is one,  *)
(* with status Setup; status Running; every executor is launched and       *)
(* waited for; status Teardown, or Interrupted when runCtx is cancelled;   *)
(* Teardown under globalCtx; MarkEnded; return. An executor borrows a VU   *)
(* for each iteration with GetPlannedVU and gives it back with ReturnVU,   *)
(* whether the iteration was full or interrupted, and starts no iteration  *)
(* once runCtx is cancelled. The hooks do not fail.                        *)
(***************************************************************************)
NoTeardown == [ran |-> FALSE, ctx |-> "none", status |-> ExecutionStatusCreated]

RunInit ==
    /\ runPc = "start"
    /\ runCtxDone = FALSE
    /\ cancelledWhileRunning = FALSE
    /\ execPc = [e \in Executors |-> "notStarted"]
    /\ teardown = NoTeardown
    /\ runRet = "none"

\* the fields of the ExecutionState that Run leaves alone
RunTimeFrame ==
    UNCHANGED <<now, currentPauseTime, totalPausedDuration, resumeNotify, chanClosed,
                chanMade, calls, pausesOk, resumesOk, pausedTicks, pausedAtStart>>

\* a step of Run itself: no executor and no VU is touched
RunFrame ==
    /\ UNCHANGED <<runCtxDone, cancelledWhileRunning, teardown, runRet>>
    /\ UNCHANGED vuVars
    /\ UNCHANGED otherThanRun

\* the status Run sets when its executors are done (the mutant does not look
\* at runCtx)
StatusAfterExecutorsIgnoringCtx(cancelled) == ExecutionStatusTeardown
StatusAfterExecutors(cancelled) ==
    IF cancelled THEN ExecutionStatusInterrupted ELSE ExecutionStatusTeardown

\* MarkStarted, once Init has filled the buffer
Run_MarkStarted(hasSetup) ==
    /\ runPc = "start"
    /\ initPc = "done"
    /\ startTime' = now
    /\ executionStatus' = ExecutionStatusStarted
    /\ lastCall' = [op |-> "MarkStarted", err |-> FALSE]
    /\ runPc' = IF hasSetup THEN "setup" ELSE "setRunning"
    /\ UNCHANGED <<endTime, execPc>>
    /\ RunTimeFrame
    /\ RunFrame

\* Setup runs on a transient VU, with status Setup
Run_Setup ==
    /\ runPc = "setup"
    /\ executionStatus' = ExecutionStatusSetup
    /\ lastCall' = [op |-> "SetExecutionStatus", err |-> FALSE]
    /\ runPc' = "setRunning"
    /\ UNCHANGED <<startTime, endTime, execPc>>
    /\ RunTimeFrame
    /\ RunFrame

\* status Running; every executor is launched
Run_SetRunning ==
    /\ runPc = "setRunning"
    /\ executionStatus' = ExecutionStatusRunning
    /\ lastCall' = [op |-> "SetExecutionStatus", err |-> FALSE]
    /\ execPc' = [e \in Executors |-> "running"]
    /\ runPc' = "wait"
    /\ UNCHANGED <<startTime, endTime>>
    /\ RunTimeFrame
    /\ RunFrame

\* an executor starts an iteration: it borrows a VU, unless its context is done
Executor_Borrow(e) ==
    /\ execPc[e] = "running"
    /\ ~runCtxDone
    /\ held[e] = {}
    /\ GetPlannedVU_Call(e, TRUE)

\* the Run of an executor returns: its schedule is over or its context is done
Executor_Returns(e) ==
    /\ execPc[e] = "running"
    /\ pc[e] = "idle"
    /\ held[e] = {}
    /\ execPc' = [execPc EXCEPT ![e] = "done"]
    /\ UNCHANGED <<runPc, runCtxDone, cancelledWhileRunning, teardown, runRet>>
    /\ UNCHANGED <<vuVars, timeVars>>
    /\ UNCHANGED otherThanRun

\* every executor is done: status Teardown, or Interrupted
Run_ExecutorsDone ==
    /\ runPc = "wait"
    /\ \A e \in Executors : execPc[e] = "done"
    /\ executionStatus' = StatusAfterExecutors(runCtxDone)
    /\ lastCall' = [op |-> "SetExecutionStatus", err |-> FALSE]
    /\ runPc' = "teardown"
    /\ UNCHANGED <<startTime, endTime, execPc>>
    /\ RunTimeFrame
    /\ RunFrame

\* Teardown runs on a transient VU, under globalCtx
Run_Teardown ==
    /\ runPc = "teardown"
    /\ teardown' = [ran |-> TRUE, ctx |-> "globalCtx", status |-> executionStatus]
    /\ runPc' = "markEnded"
    /\ UNCHANGED <<runCtxDone, cancelledWhileRunning, execPc, runRet>>
    /\ UNCHANGED <<vuVars, timeVars>>
    /\ UNCHANGED otherThanRun

\* MarkEnded
Run_MarkEnded ==
    /\ runPc = "markEnded"
    /\ endTime' = now
    /\ executionStatus' = ExecutionStatusEnded
    /\ lastCall' = [op |-> "MarkEnded", err |-> FALSE]
    /\ runPc' = "return"
    /\ UNCHANGED <<startTime, execPc>>
    /\ RunTimeFrame
    /\ RunFrame

\* return nil
Run_Return ==
    /\ runPc = "return"
    /\ runRet' = "nil"
    /\ runPc' = "returned"
    /\ UNCHANGED <<runCtxDone, cancelledWhileRunning, execPc, teardown>>
    /\ UNCHANGED <<vuVars, timeVars>>
    /\ UNCHANGED otherThanRun

SomeExecutorRunning == runPc = "wait" /\ \E e \in Executors : execPc[e] = "running"

\* runCtx is cancelled: the user aborts the test, or its duration is over
CancelRunCtx ==
    /\ ~runCtxDone
    /\ runPc # "returned"
    /\ runCtxDone' = TRUE
    /\ cancelledWhileRunning' = SomeExecutorRunning
    /\ UNCHANGED <<runPc, execPc, teardown, runRet>>
    /\ UNCHANGED <<vuVars, timeVars>>
    /\ UNCHANGED otherThanRun

\* the steps of the scheduler and of its executors
RunStep ==
    \/ InitNewVU
    \/ AddInitializedVU_Send
    \/ AddInitializedVU_Count
    \/ \E hasSetup \in BOOLEAN : Run_MarkStarted(hasSetup)
    \/ Run_Setup
    \/ Run_SetRunning
    \/ \E e \in Executors : Executor_Borrow(e)
    \/ \E e \in Executors : GetPlannedVU_Recv(e)
    \/ \E e \in Executors : GetPlannedVU_Inc(e)
    \/ \E e \in Executors, vu \in 1..MaxPossibleVUs : ReturnVU_Send(e, vu)
    \/ \E e \in Executors : ReturnVU_Dec(e)
    \/ \E e \in Executors : Executor_Returns(e)
    \/ Run_ExecutorsDone
    \/ Run_Teardown
    \/ Run_MarkEnded
    \/ Run_Return

NextRun ==
    \/ RunStep
    \/ CancelRunCtx

(***************************************************************************)
(* C28: when runCtx is cancelled while executors are running, the status   *)
(* is Interrupted when Teardown starts, Teardown runs, under globalCtx,    *)
(* every borrowed VU is back in the buffer when Run returns, and Run       *)
(* returns, with nil.                                                      *)
(***************************************************************************)
RunReturned == runPc = "returned"

AllVUsInBuffer ==
    /\ \A e \in Executors : held[e] = {}
    /\ Len(vus) = initializedVUs
    /\ activeVUs = 0

NoObserved == [startTime |-> 0, pausedDuration |-> 0]

ObserverInit ==
    /\ obsPc = "idle"
    /\ obsLoc = NoObserved
    /\ obsRet = 0
    /\ obsCalls = 0

\* return d
ObserverReturns(d) ==
    /\ obsRet' = d
    /\ obsCalls' = obsCalls + 1
    /\ obsPc' = "idle"
    /\ obsLoc' = NoObserved

\* startTime := atomic.LoadInt64(es.startTime); if startTime == 0 { return 0 }
GetCurrentTestRunDuration_LoadStart ==
    /\ obsPc = "idle"
    /\ obsCalls < MaxObserved
    /\ IF startTime = 0
         THEN ObserverReturns(0)
         ELSE /\ obsPc' = "rlock"
              /\ obsLoc' = [obsLoc EXCEPT !.startTime = startTime]
              /\ UNCHANGED <<obsRet, obsCalls>>
    /\ UNCHANGED otherThanObserver

\* RLock; endTime := LoadInt64(es.endTime); pausedDuration :=
\* es.totalPausedDuration; RUnlock; with endTime != 0 the call returns
GetCurrentTestRunDuration_RLocked ==
    /\ obsPc = "rlock"
    /\ IF endTime # 0
         THEN ObserverReturns((endTime - obsLoc.startTime) - totalPausedDuration)
         ELSE /\ obsPc' = "pause"
              /\ obsLoc' = [obsLoc EXCEPT !.pausedDuration = totalPausedDuration]
              /\ UNCHANGED <<obsRet, obsCalls>>
    /\ UNCHANGED otherThanObserver

\* pauseTime := atomic.LoadInt64(es.currentPauseTime); with pauseTime != 0 it
\* is the end point
GetCurrentTestRunDuration_LoadPause ==
    /\ obsPc = "pause"
    /\ IF currentPauseTime # 0
         THEN ObserverReturns((currentPauseTime - obsLoc.startTime) - obsLoc.pausedDuration)
         ELSE /\ obsPc' = "clock"
              /\ UNCHANGED <<obsLoc, obsRet, obsCalls>>
    /\ UNCHANGED otherThanObserver

\* endTime = time.Now().UnixNano()
GetCurrentTestRunDuration_Now ==
    /\ obsPc = "clock"
    /\ ObserverReturns((now - obsLoc.startTime) - obsLoc.pausedDuration)
    /\ UNCHANGED otherThanObserver

NextObserver ==
    \/ Tick
    \/ MarkStarted
    \/ MarkEnded
    \/ Pause
    \/ Resume
    \/ GetCurrentTestRunDuration_LoadStart
    \/ GetCurrentTestRunDuration_RLocked
    \/ GetCurrentTestRunDuration_LoadPause
    \/ GetCurrentTestRunDuration_Now

(***************************************************************************)
(* C37: successive calls of GetCurrentTestRunDuration() by one observer    *)
(* never return a smaller value than an earlier call, a Resume running     *)
(* between the observer's reads included.                                  *)
(***************************************************************************)
\* this step is the return of a call that is not the observer's first
LaterCallReturns == obsCalls' = obsCalls + 1 /\ obsCalls >= 1

\* (stated for a test that has not ended and was not paused when it was
\* started, which leaves Pause, Resume and the clock to change the value)
C37_ObservedDurationMonotone ==
    [][(LaterCallReturns /\ endTime' = 0 /\ ~pausedAtStart') => (obsRet' >= obsRet)]_vars

\* what holds of the code: the returned values do not decrease as long as the
\* test has not ended and no Pause has succeeded
C37_MonotoneWithoutPauses ==
    [][(LaterCallReturns /\ endTime' = 0 /\ pausesOk' = 0) => (obsRet' >= obsRet)]_vars

(***************************************************************************)
(* SetExecutionStatus called by several goroutines: the call, the swap     *)
(* (one atomic instruction) and the return are three steps.                *)
(***************************************************************************)
SwapStatuses == {ExecutionStatusRunning, ExecutionStatusTeardown, ExecutionStatusEnded}

SwapInit ==
    /\ swapPc = [g \in Goroutines |-> "idle"]
    /\ swapArg = [g \in Goroutines |-> ExecutionStatusCreated]
    /\ swapRet = [g \in Goroutines |-> ExecutionStatusCreated]
    /\ swapLog = <<>>

\* atomic.SwapUint32(addr, new) returns the old value (the mutant returns the
\* value it stored)
SwapReturnsNew(val, new) == new
SwapUint32(val, new) == val

\* calls that were made and have not swapped yet
SwapsPending == Cardinality({g \in Goroutines : swapPc[g] = "called"})

\* a goroutine calls es.SetExecutionStatus(newStatus)
SetExecutionStatus_Call(g, newStatus) ==
    /\ swapPc[g] = "idle"
    /\ Len(swapLog) + SwapsPending < MaxSwaps
    /\ swapPc' = [swapPc EXCEPT ![g] = "called"]
    /\ swapArg' = [swapArg EXCEPT ![g] = newStatus]
    /\ UNCHANGED <<swapRet, swapLog, timeVars>>
    /\ UNCHANGED otherThanSwap

\* ExecutionStatus(atomic.SwapUint32(es.executionStatus, uint32(newStatus)))
SetExecutionStatus_Swap(g) ==
    /\ swapPc[g] = "called"
    /\ executionStatus' = swapArg[g]
    /\ swapRet' = [swapRet EXCEPT ![g] = SwapUint32(executionStatus, swapArg[g])]
    /\ swapLog' = Append(swapLog, [by |-> g, new |-> swapArg[g], old |-> swapRet'[g]])
    /\ swapPc' = [swapPc EXCEPT ![g] = "swapped"]
    /\ lastCall' = [op |-> "SetExecutionStatus", err |-> FALSE]
    /\ UNCHANGED <<now, startTime, endTime, currentPauseTime,
                   totalPausedDuration, resumeNotify, chanClosed, chanMade,
                   calls, pausesOk, resumesOk, pausedTicks, pausedAtStart>>
    /\ UNCHANGED swapArg
    /\ UNCHANGED otherThanSwap

\* the call returns oldStatus to its caller
SetExecutionStatus_Return(g) ==
    /\ swapPc[g] = "swapped"
    /\ swapPc' = [swapPc EXCEPT ![g] = "idle"]
    /\ UNCHANGED <<swapArg, swapRet, swapLog, timeVars>>
    /\ UNCHANGED otherThanSwap

NextSwap ==
    \/ \E g \in Goroutines, st \in SwapStatuses : SetExecutionStatus_Call(g, st)
    \/ \E g \in Goroutines : SetExecutionStatus_Swap(g)
    \/ \E g \in Goroutines : SetExecutionStatus_Return(g)

(***************************************************************************)
(* C33: concurrent SetExecutionStatus calls take effect in a total order   *)
(* in which each call returns the status written by the call just before   *)
(* it, the first one returns the initial status, and the status left at    *)
(* the end is the one written by the last call.                            *)
(***************************************************************************)
C33_SwapsFormAChain ==
    /\ swapLog # <<>> => swapLog[1].old = ExecutionStatusCreated
    /\ \A k \in 2..Len(swapLog) : swapLog[k].old = swapLog[k - 1].new
    /\ swapLog # <<>> => executionStatus = swapLog[Len(swapLog)].new
    /\ \A g \in Goroutines :
          swapPc[g] = "swapped"
             => \E k \in 1..Len(swapLog) :
                   swapLog[k] = [by |-> g, new |-> swapArg[g], old |-> swapRet[g]]

\* two calls are in flight at once, both have swapped and neither has
\* returned: the second got the status the first wrote, which differs from
\* the initial status and from the one the second wrote
C33_Witness ==
    /\ \A g \in Goroutines : swapPc[g] = "swapped"
    /\ Len(swapLog) = 2
    /\ swapLog[1].by # swapLog[2].by
    /\ swapLog[2].old = swapLog[1].new
    /\ swapLog[2].new # swapLog[1].new
    /\ swapRet[swapLog[2].by] = swapArg[swapLog[1].by]

(***************************************************************************)
(* K6.Group. A group is written as its path, the sequence of names from    *)
(* the root group down; fn is the script's callback, which may call Group  *)
(* again. state.Group.Group(name) gives the child of state.Group named     *)
(* name, or an error.                                                      *)
(***************************************************************************)
GroupNames == {"a", "b"}
RootGroup == <<>>
\* state.Tags has no "group" key
NoGroupTag == <<"">>
NoGroupCall == [op |-> "none", err |-> FALSE]

\* the group system tag is an option of the test: enabled or not
GroupInit(systemTagGroup) ==
    /\ grpGroup = RootGroup
    /\ grpTagOn = systemTagGroup
    /\ grpTag = IF systemTagGroup THEN RootGroup ELSE NoGroupTag
    /\ grpStack = <<>>
    /\ grpLast = NoGroupCall
    /\ grpCalls = 0
    /\ grpFnCalls = 0
    /\ grpSamples = 0

\* g, err := state.Group.Group(name): the child's path is the parent's path,
\* the separator and the name
ChildGroup(parent, name) == Append(parent, name)

\* the deferred function: state.Group = old (the mutant leaves the child)
DeferKeepsChild(frame) == ChildGroup(frame.old, frame.name)
DeferRestores(frame) == frame.old

\* fn of the innermost Group call is running (or no Group call is under way)
InFn == IF grpStack = <<>> THEN TRUE ELSE grpStack[Len(grpStack)].pc = "fn"

\* Group(name, fn) up to the call of fn: the state and fn are checked, the
\* child group is looked up, state.Group and the tag are set
Group_Call(name, stateNil, fnNil, groupErr) ==
    /\ InFn
    /\ grpCalls < MaxGroupCalls
    /\ stateNil => grpStack = <<>>
    /\ grpCalls' = grpCalls + 1
    /\ IF stateNil \/ fnNil \/ groupErr
         THEN /\ grpLast' = [op |-> IF stateNil THEN "ErrGroupInInitContext"
                                    ELSE IF fnNil THEN "no callback"
                                    ELSE "Group.Group", err |-> TRUE]
              /\ UNCHANGED <<grpGroup, grpTag, grpStack, grpFnCalls>>
         ELSE /\ grpStack' = Append(grpStack,
                                [name |-> name, old |-> grpGroup,
                                 shouldUpdateTag |-> grpTagOn, pc |-> "fn",
                                 groupBefore |-> grpGroup, tagBefore |-> grpTag])
              /\ grpGroup' = ChildGroup(grpGroup, name)
              /\ grpTag' = IF grpTagOn THEN ChildGroup(grpGroup, name) ELSE grpTag
              /\ grpFnCalls' = grpFnCalls + 1
              /\ UNCHANGED grpLast
    /\ UNCHANGED <<grpTagOn, grpSamples>>
    /\ UNCHANGED otherThanGroup

\* fn returns (ret, err): the sample is pushed unless the context is done,
\* then the deferred function puts state.Group and the tag back
Group_Return(fnErr, ctxIsDone) ==
    /\ grpStack # <<>>
    /\ LET frame == grpStack[Len(grpStack)]
       IN  /\ frame.pc = "fn"
           /\ grpSamples' = IF ctxIsDone THEN grpSamples ELSE grpSamples + 1
           /\ grpGroup' = DeferRestores(frame)
           /\ grpTag' = IF frame.shouldUpdateTag THEN frame.old ELSE grpTag
           /\ grpStack' = SubSeq(grpStack, 1, Len(grpStack) - 1)
           /\ grpLast' = [op |-> "fn", err |-> fnErr]
    /\ UNCHANGED <<grpTagOn, grpCalls, grpFnCalls>>
    /\ UNCHANGED otherThanGroup

NextGroup ==
    \/ \E name \in GroupNames, stateNil, fnNil, groupErr \in BOOLEAN :
          Group_Call(name, stateNil, fnNil, groupErr)
    \/ \E fnErr, ctxIsDone \in BOOLEAN : Group_Return(fnErr, ctxIsDone)

(***************************************************************************)
(* C40: K6.Group keeps a stack discipline: while fn runs state.Group is    *)
(* the child group named name; when Group returns, with or without an      *)
(* error from fn, state.Group (and the group tag when the group system tag *)
(* is enabled) is what it was before the call, at any depth of nesting;    *)
(* a call with a nil state or a nil fn returns an error without calling    *)
(* fn or changing the state.                                               *)
(***************************************************************************)
\* this step is the return of a Group call that had called its fn
GroupReturns == Len(grpStack') < Len(grpStack)
\* this step is a Group call that returns an error before calling fn
GroupRefused == grpCalls' = grpCalls + 1 /\ Len(grpStack') = Len(grpStack)

C40_GroupStackDiscipline ==
    /\ [](\A k \in 1..Len(grpStack) :
             LET here == IF k = Len(grpStack) THEN grpGroup ELSE grpStack[k + 1].groupBefore
                 tag == IF k = Len(grpStack) THEN grpTag ELSE grpStack[k + 1].tagBefore
             IN  /\ here = ChildGroup(grpStack[k].groupBefore, grpStack[k].name)
                 /\ grpTagOn => tag = here
                 /\ ~grpTagOn => tag = NoGroupTag)
    /\ [][GroupReturns
            => /\ grpGroup' = grpStack[Len(grpStack)].groupBefore
               /\ grpTag' = grpStack[Len(grpStack)].tagBefore
               /\ grpStack' = SubSeq(grpStack, 1, Len(grpStack) - 1)]_vars
    /\ [][GroupRefused
            => /\ grpLast'.err
               /\ grpFnCalls' = grpFnCalls
               /\ <<grpGroup, grpTag, grpStack>>' = <<grpGroup, grpTag, grpStack>>]_vars
    /\ [][(grpCalls' = grpCalls + 1 /\ ~GroupRefused) => (grpFnCalls' = grpFnCalls + 1)]_vars

\* a Group call nested in another one has returned with fn's error: the
\* outer fn is running again, in the outer group, with the outer group's tag
C40_Witness ==
    /\ grpTagOn
    /\ Len(grpStack) = 1
    /\ grpFnCalls = 2
    /\ grpLast = [op |-> "fn", err |-> TRUE]
    /\ grpGroup = <<"a">>
    /\ grpTag = <<"a">>

Init == NewExecutionState /\ TimeInit /\ LoopInit /\ IdsInit /\ IterationsInit /\ TagsInit
        /\ CheckInit /\ RunInit /\ ObserverInit /\ SwapInit /\ GroupInit(TRUE)

SpecVU == Init /\ [][NextVU]_vars

\* the pause bookkeeping does not depend on the VU pool: it is kept at one of
\* its initial states
InitPause == Init /\ maxPlannedVUs = 0

SpecPause == InitPause /\ [][NextPause]_vars

\* the event loop runs whatever the execution state is: it is kept at one
\* of its initial states
InitLoop == Init /\ maxPlannedVUs = 0

SpecLoop == InitLoop /\ [][NextLoop]_vars

\* Start and the completing goroutines keep running
FairLoop == SpecLoop /\ WF_vars(StartStep) /\ WF_vars(CompleterStep)

\* the other parts of the ExecutionState do not depend on the VU pool either
InitIds == Init /\ maxPlannedVUs = 0

SpecIds == InitIds /\ [][NextIds]_vars

InitIterations == Init /\ maxPlannedVUs = 0

SpecIterations == InitIterations /\ [][NextIterations]_vars

\* a TagMap does not depend on the ExecutionState
InitTags == Init /\ maxPlannedVUs = 0

SpecTags == InitTags /\ [][NextTags]_vars

\* neither does a call of Check
InitCheck == Init /\ maxPlannedVUs = 0

SpecCheck == InitCheck /\ [][NextCheck]_vars

\* Run starts with a pool planned for its executors: one VU for each
InitRun == Init /\ maxPlannedVUs = MaxPossibleVUs

SpecRun == InitRun /\ [][NextRun]_vars

\* the scheduler and its executors keep running
FairRun == SpecRun /\ WF_vars(RunStep)

InitObserver == Init /\ maxPlannedVUs = 0

SpecObserver == InitObserver /\ [][NextObserver]_vars

InitSwap == Init /\ maxPlannedVUs = 0

SpecSwap == InitSwap /\ [][NextSwap]_vars

\* as Init, with the group system tag enabled or disabled
InitGroup ==
    /\ NewExecutionState /\ TimeInit /\ LoopInit /\ IdsInit /\ IterationsInit /\ TagsInit
    /\ CheckInit /\ RunInit /\ ObserverInit /\ SwapInit
    /\ \E systemTagGroup \in BOOLEAN : GroupInit(systemTagGroup)
    /\ maxPlannedVUs = 0

SpecGroup == InitGroup /\ [][NextGroup]_vars

====
